---- MODULE Spec2Model ----
(***************************************************************************)
(* A model of the provider gateway of llm_chat_app: the chat schemas, the  *)
(* ClientManager pool, LLMService.generate_response / stream_response,     *)
(* and the validation done by the chat endpoints.                          *)
(*                                                                         *)
(* Handlers are coroutines: they are modelled from one suspension point    *)
(* (await of a provider call, await of a search) to the next.  What the    *)
(* provider or the search capability answers is an input of the step that  *)
(* resumes the handler.                                                    *)
(***************************************************************************)
EXTENDS Integers, Sequences, FiniteSets, TLC

VARIABLES
    svc,          \* the LLMService instance: provider, model, ollama_base_url set or not
    settings,     \* app.core.config.settings: which of the names read from it it holds
    search_service,   \* app.services.search_service.search_service: enabled, client
    clients,      \* ClientManager._clients: provider -> instance id, 0 when absent
    constructed,  \* provider -> number of client instances constructed in the process
    op,           \* the operation in progress or last finished
    req,          \* its request
    pc,           \* where the handler is suspended
    calls,        \* the provider calls this invocation has issued, in order
    fmsgs,        \* formatted_messages of the invocation (a list the handler appends to)
    pending,      \* tool calls of the first response not yet looked at
    tool_results, \* tool_results of _handle_ollama_response
    executed,     \* the tool calls executed by this invocation, in order
    result,       \* what the invocation returned or raised
    chunks,       \* what stream_response has yielded so far
    native,       \* the native chunks the provider's stream has delivered
    others,       \* the other invocations in flight, each suspended at its await
    tpc,          \* thread -> position inside ClientManager.get_*_client
    tprov,        \* thread -> provider whose client the thread acquires
    tgot,         \* thread -> instance returned to the thread, 0 before the return
    http,         \* the endpoint's answer: status and detail
    reached,      \* what the endpoint's handler invoked: agent, service, provider client
    egen,         \* where the event generator of the StreamingResponse stands
    script,       \* the text deltas a deterministic provider answers with
    generated,    \* what generate_response returned or raised on the request now streamed
    agent,        \* the AgentState channels the checkpointer keeps for the thread
    anode,        \* the node of the agent's graph about to run, or where invoke stands
    atrace,       \* the steps the current run of the graph has performed, in order
    delivered,    \* what LangGraphAgent.invoke returned or raised
    saved,        \* thread id -> the checkpoint the MemorySaver keeps for the thread
    store,        \* _rate_limit_store: client ip -> count and window_start
    clock,        \* time.time()
    admitted,     \* client ip -> the times at which its requests were admitted
    verdict,      \* the last rate_limit_check: ip, time, status, count and window_start it found
    held,         \* the keys of ClientManager._clients in insertion order
    closed,       \* the close() calls that are over: <<provider, instance, whether it returned>>
    closer,       \* where close_all_clients stands: position, keys visited, size at the start
    app,          \* the application: "running", or "shutdown" once lifespan has finished
    acquired,     \* the last get_<provider>_client: provider, outcome, instance
    failed,       \* provider -> whether its last acquisition raised
    counters,     \* the usage counters of a provider's response: -1 for one not supplied
    usage         \* the usage of the ChatResponse built from them

vars == <<svc, settings, search_service, others, clients, constructed, op, req, pc, calls, fmsgs, pending,
          tool_results, executed, result, chunks, native, tpc, tprov, tgot, http, reached, egen,
          script, generated, agent, anode, atrace, delivered, saved, store, clock, admitted, verdict,
          held, closed, closer, app, acquired, failed, counters, usage>>

svcVars == <<op, req, pc, calls, fmsgs, pending, tool_results, executed, result,
             chunks, native>>
poolVars == <<tpc, tprov, tgot>>
apiVars == <<http, reached, egen>>
mockVars == <<script, generated>>
agentVars == <<agent, anode, atrace, delivered, saved>>
limitVars == <<store, clock, admitted, verdict>>
lifeVars == <<held, closed, closer, app, acquired, failed>>
usageVars == <<counters, usage>>
sideVars == <<mockVars, lifeVars, usageVars>>
outerVars == <<mockVars, agentVars, limitVars, lifeVars, usageVars>>

-----------------------------------------------------------------------------
(* Bounds of the model. *)

MaxMsgs == 2         \* longest conversation submitted
MaxToolCalls == 2    \* most tool calls in one provider response
MaxOwnClients == 2   \* cap on client instances constructed per provider
MaxChunks == 2       \* most native chunks in one stream
MaxBlocks == 2       \* most choices or content blocks in one provider response
NThreads == 2        \* threads acquiring clients concurrently
MaxInFlight == 2     \* invocations of the service in flight at once
MaxTokens == 2       \* largest token count a provider reports
RATE_LIMIT_REQUESTS == 2   \* settings.RATE_LIMIT_REQUESTS, scaled down
RATE_LIMIT_WINDOW == 2     \* settings.RATE_LIMIT_WINDOW in seconds, scaled down
MaxClock == 4        \* seconds of time.time() observed

-----------------------------------------------------------------------------
(* Values. *)

None == "<None>"

KnownProviders == {"openai", "anthropic", "gemini", "ollama"}

\* Provider overrides a caller may send: absent, empty, known, unknown.
ProviderInputs == {None, ""} \cup KnownProviders \cup {"bogus"}

Roles == {"user", "assistant", "system"}
RoleInputs == Roles \cup {"tool"}

\* Model names are character sequences, so that lower() and `in` are computed.
GPT4 == <<"g", "p", "t", "-", "4">>
LLAMA == <<"L", "l", "a", "m", "a", "3">>
GPTOSS == <<"g", "p", "t", "-", "o", "s", "s">>
MISTRAL == <<"m", "i", "s", "t", "r", "a", "l">>

\* settings.LLM_MODEL
DefaultModel == GPT4

\* request.model when the caller gives none (None and "" are both falsy)
NoModel == <<>>

\* Contents are sequences of text tokens; "+" and join are concatenation.
Text(t) == <<t>>
NoContent == <<>>

\* message.content of None, as openai answers when it gives no text
NoneContent == <<None>>

-----------------------------------------------------------------------------
(* app/schemas/chat.py on the repository's pydantic package.               *)

\* pydantic.Field keeps the constraints (ge, le) as dataclass metadata and
\* BaseModel is a bare dataclass: construction stores the arguments as given.

\* Message(role=..., content=...)
Message(role, content) == [role |-> role, content |-> content]

\* ChatRequest(messages=..., model=..., temperature=..., provider=...).
\* Temperatures are in tenths (0.7 is 7).  A ChatRequest has no enable_search
\* field: the attribute is "unset" until somebody assigns it.
ChatRequest(messages, model, temperature, provider) ==
    [messages |-> messages, model |-> model, temperature |-> temperature,
     provider |-> provider, stream |-> FALSE, enable_search |-> "unset"]

\* request.enable_search = value, an assignment to the constructed object
SetEnableSearch(request, value) == [request EXCEPT !.enable_search = value]

\* request.stream = True
SetStream(request) == [request EXCEPT !.stream = TRUE]

\* ChatResponse(message=Message(role="assistant", content=content), model=model, ...)
ChatResponse(content, model) ==
    [kind |-> "response", role |-> "assistant", content |-> content,
     model |-> model, error |-> "none", type |-> "ChatResponse"]

\* a raised exception of the given class with the given message
ExceptionOf(type, error) ==
    [kind |-> "error", role |-> "none", content |-> NoContent,
     model |-> NoModel, error |-> error, type |-> type]

\* raise Exception(error)
Raised(error) == ExceptionOf("Exception", error)

NoResult ==
    [kind |-> "none", role |-> "none", content |-> NoContent,
     model |-> NoModel, error |-> "none", type |-> "none"]

-----------------------------------------------------------------------------
(* Pure helpers of LLMService.                                             *)

\* Python's `a or b` on an optional string
Or(a, b) == IF a = None \/ a = "" THEN b ELSE a

\* the service's model whatever the request asks for
OrModelDefault(a, b) == b

\* `request.model or self.model`
OrModel(a, b) == IF a = NoModel THEN b ELSE a

\* LLMService.format_messages
format_messages(messages) ==
    [i \in 1..Len(messages) |->
        [role |-> IF messages[i].role \notin {"user", "assistant", "system"}
                  THEN "user"
                  ELSE messages[i].role,
         content |-> messages[i].content]]

\* "\n".join(f"{m.role}: {m.content}" for m in request.messages): the roles
\* go into the conversation text as they are.
conversation(messages) ==
    [i \in 1..Len(messages) |->
        [role |-> messages[i].role, content |-> messages[i].content]]

\* str.lower() on the characters model names are made of
LowerChar(c) == CASE c = "L" -> "l" [] c = "G" -> "g" [] OTHER -> c
lower(s) == [i \in 1..Len(s) |-> LowerChar(s[i])]

\* `pat in s`
Contains(pat, s) ==
    \E i \in 0..(Len(s) - Len(pat)) :
        \A j \in 1..Len(pat) : s[i + j] = pat[j]

\* the allow-list test of _handle_ollama_response
ModelSupportsTools(model) ==
    \/ Contains(<<"g", "p", "t", "-", "o", "s", "s">>, lower(model))
    \/ Contains(<<"l", "l", "a", "m", "a">>, lower(model))

\* tools = [] ... tools.append(get_search_tool_definition())
ToolsAttached(s, search, request, model) ==
    /\ request.enable_search = "on"
    /\ s.EXA_SEARCH_ENABLED
    /\ search.enabled
    /\ ModelSupportsTools(model)

-----------------------------------------------------------------------------
(* app.core.config.settings.  client_manager, llm_service and              *)
(* search_service read names from it that the Settings class does not      *)
(* declare; reading a name the object does not hold raises AttributeError. *)

\* a settings object: whether it holds HTTP_MAX_CONNECTIONS, HTTP_MAX_KEEPALIVE,
\* HTTP_KEEPALIVE_EXPIRY and HTTP_CONNECTION_TIMEOUT; OLLAMA_BASE_URL;
\* EXA_API_KEY and EXA_SEARCH_ENABLED; and the value of EXA_SEARCH_ENABLED
Settings(http_names, ollama_base_url, exa_names, search_enabled) ==
    [HTTP |-> http_names, OLLAMA_BASE_URL |-> ollama_base_url, EXA |-> exa_names,
     EXA_SEARCH_ENABLED |-> (exa_names /\ search_enabled)]

\* settings = Settings(): the fields the class declares and no other
DeclaredSettings == Settings(FALSE, FALSE, FALSE, FALSE)

\* a settings object that holds every name the application reads
CompleteSettings(search_enabled) == Settings(TRUE, TRUE, TRUE, search_enabled)

SettingsObjects == {DeclaredSettings, CompleteSettings(TRUE), CompleteSettings(FALSE)}

\* search_service = SearchService() under the settings s: `enabled` starts as
\* settings.EXA_SEARCH_ENABLED; with a key, __post_init__ constructs the Exa
\* client, and sets enabled to False when exa_py cannot be imported or Exa()
\* raises.  Under settings without the EXA names the construction raises
\* AttributeError and there is no instance.
SearchService(s, has_api_key, exa_constructs) ==
    [kind |-> IF s.EXA THEN "service" ELSE "AttributeError",
     enabled |-> s.EXA_SEARCH_ENABLED /\ (has_api_key => exa_constructs),
     client |-> s.EXA_SEARCH_ENABLED /\ has_api_key /\ exa_constructs]

\* every search service the settings s can give
SearchServices(s) ==
    {SearchService(s, has_api_key, exa_constructs) :
        has_api_key \in BOOLEAN, exa_constructs \in BOOLEAN}

\* the search service of a process whose settings hold a key and whose Exa
\* client can be constructed
WorkingSearch(s) == SearchService(s, TRUE, TRUE)

\* str(e) of the AttributeError
NoAttribute(name) ==
    CASE name = "prompt_tokens" ->
             "'NoneType' object has no attribute 'prompt_tokens'"
      [] name = "HTTP_MAX_CONNECTIONS" ->
             "'Settings' object has no attribute 'HTTP_MAX_CONNECTIONS'"
      [] name = "OLLAMA_BASE_URL" ->
             "'Settings' object has no attribute 'OLLAMA_BASE_URL'"
      [] OTHER -> "'Settings' object has no attribute 'EXA_API_KEY'"

-----------------------------------------------------------------------------
(* ClientManager, as seen from a coroutine: get_*_client has no await in   *)
(* it, so on the event loop it runs from its test to its return.           *)

\* the instance get_<provider>_client returns
ClientOf(p) == IF clients[p] = 0 THEN constructed[p] + 1 ELSE clients[p]

\* the first name get_<provider>_client reads that the settings do not hold:
\* _get_http_limits for openai and anthropic, OLLAMA_BASE_URL for ollama; the
\* gemini client reads declared names only
MissingName(p, s) ==
    CASE p \in {"openai", "anthropic"} /\ ~s.HTTP -> "HTTP_MAX_CONNECTIONS"
      [] p = "ollama" /\ ~s.OLLAMA_BASE_URL -> "OLLAMA_BASE_URL"
      [] OTHER -> None

\* get_<provider>_client raises: the map has no client and the construction
\* reads a name the settings do not hold
GetClientRaises(p) == clients[p] = 0 /\ MissingName(p, settings) # None

\* ClientManager.get_openai_client / get_anthropic_client / get_ollama_client /
\* get_gemini_client: construct and keep the client when the map has none;
\* when the construction raises nothing is stored
get_client(p) ==
    IF clients[p] = 0 /\ MissingName(p, settings) = None
    THEN /\ clients' = [clients EXCEPT ![p] = constructed[p] + 1]
         /\ constructed' = [constructed EXCEPT ![p] = @ + 1]
    ELSE UNCHANGED <<clients, constructed>>

-----------------------------------------------------------------------------
(* Provider calls and what the provider answers.                           *)

\* a counter the provider did not supply
Absent == -1

\* no response has been translated yet
NotTranslated ==
    [kind |-> "none", prompt_tokens |-> Absent, completion_tokens |-> Absent,
     total_tokens |-> Absent]

\* usage = {...}: the keys that are set, Absent for a key that is not
Mapping(prompt, completion, total) ==
    [kind |-> "mapping", prompt_tokens |-> prompt, completion_tokens |-> completion,
     total_tokens |-> total]

\* usage.get(key, 0)
GetOrZero(value) == IF value = Absent THEN 0 ELSE value

\* the usage of the ChatResponse: openai reads the three attributes of
\* response.usage and raises when there is no usage object; anthropic and
\* gemini pass usage={}; ollama sets the keys whose counters the response
\* holds and, when it has set one, their sum with 0 for a missing one
UsageOf(c) ==
    CASE c.provider = "openai" ->
             IF c.prompt = Absent /\ c.completion = Absent /\ c.total = Absent
             THEN [NotTranslated EXCEPT !.kind = "raised"]
             ELSE Mapping(c.prompt, c.completion, c.total)
      [] c.provider = "ollama" ->
             IF c.prompt = Absent /\ c.completion = Absent
             THEN Mapping(Absent, Absent, Absent)
             ELSE Mapping(c.prompt, c.completion,
                          GetOrZero(c.prompt) + GetOrZero(c.completion))
      [] OTHER -> Mapping(Absent, Absent, Absent)

\* the token counters of a native answer: the three attributes of openai's
\* response.usage, eval_count and prompt_eval_count of an ollama response
Counters(prompt, completion, total) ==
    [prompt |-> prompt, completion |-> completion, total |-> total]

\* an answer without counters: response.usage is None on openai
NoCounters == Counters(Absent, Absent, Absent)

\* The body of a native answer is held as the sequence of what carries
\* its content.  openai: response.choices, each entry the message.content of
\* a choice.  anthropic: response.content, each entry the text of a block, or
\* NoText for a block without a text attribute.  gemini: the text of the
\* result, and ollama: the content of response['message']; for these two the
\* sequence is empty when the attribute or the key is absent.
NoText == <<"<no text>">>

\* str(result) of a gemini result that has no text attribute
StrOfResult == Text("<result>")

\* the native answer that carries one content: one choice, one text block,
\* the text of the result, the content of the message
Answer(content) == [body |-> <<content>>, usage |-> Counters(1, 1, 2)]

\* answers the provider's client library can hand to its handler
WellShaped(provider, response) ==
    CASE provider = "openai" -> \A i \in 1..Len(response) : response[i] # NoText
      [] provider = "anthropic" -> \A i \in 1..Len(response) : response[i] # NoneContent
      [] OTHER -> Len(response) <= 1 /\ \A i \in 1..Len(response) : response[i] # NoText

NoReply ==
    [status |-> "pending", body |-> <<>>, usage |-> NoCounters, tool_calls |-> <<>>,
     failure |-> "none"]

\* one call of client.chat.completions.create / messages.create /
\* generate_content_async / ollama chat
Call(p, client, model, messages, tools, stream) ==
    [provider |-> p, client |-> client, model |-> model, messages |-> messages,
     tools |-> tools, stream |-> stream, reply |-> NoReply]

\* tool calls a response may carry: the declared tool with arguments as a
\* mapping, as a JSON string, as a string that is no JSON; and another tool
ToolCallKinds ==
    { [name |-> "web_search", args |-> "dict"],
      [name |-> "web_search", args |-> "json"],
      [name |-> "web_search", args |-> "bad"],
      [name |-> "other", args |-> "dict"] }

RECURSIVE SeqsUpTo(_, _)
SeqsUpTo(S, n) ==
    IF n = 0 THEN {<<>>}
    ELSE LET shorter == SeqsUpTo(S, n - 1)
         IN  shorter \cup {Append(q, x) : q \in {r \in shorter : Len(r) = n - 1}, x \in S}

ReplyContents == {Text("A"), Text("B")}

\* "".join(parts)
RECURSIVE Concat(_)
Concat(parts) == IF parts = <<>> THEN <<>> ELSE parts[1] \o Concat(Tail(parts))

\* `response.choices[0].message.content`
openai_content(choices) == choices[1]

\* the text of the first block alone
anthropic_first_block(blocks) ==
    IF blocks = <<>> \/ blocks[1] = NoText THEN NoContent ELSE blocks[1]

\* `"".join(block.text for block in getattr(response, "content", [])
\*          if hasattr(block, "text"))`
anthropic_content(blocks) ==
    Concat(SelectSeq(blocks, LAMBDA block : block # NoText))

\* `getattr(result, "text", str(result))`
gemini_content(answer) == IF answer = <<>> THEN StrOfResult ELSE answer[1]

\* `response.get('message', {}).get('content', '')`
ollama_content(response) == IF response = <<>> THEN NoContent ELSE response[1]

\* the content a handler takes from the answer to its call
ContentOf(c) ==
    CASE c.provider = "openai" -> openai_content(c.reply.body)
      [] c.provider = "anthropic" -> anthropic_content(c.reply.body)
      [] c.provider = "gemini" -> gemini_content(c.reply.body)
      [] OTHER -> ollama_content(c.reply.body)

\* the counters of the answer to a call, as the handler of its provider
\* reads them
CountersOf(c) ==
    [provider |-> c.provider, prompt |-> c.reply.usage.prompt,
     completion |-> c.reply.usage.completion, total |-> c.reply.usage.total]

\* What a handler does with the answer to its last call: the content is
\* taken, the usage mapping is built, and the ChatResponse is returned with
\* the model of the call.  On openai choices[0] of an answer without choices
\* raises IndexError and response.usage.prompt_tokens of an answer whose
\* usage is None raises AttributeError; the handler's last except clause
\* re-raises both.
Returned(c) ==
    IF c.provider = "openai" /\ c.reply.body = <<>>
    THEN ExceptionOf("IndexError", "list index out of range")
    ELSE IF UsageOf(CountersOf(c)).kind = "raised"
    THEN ExceptionOf("AttributeError", NoAttribute("prompt_tokens"))
    ELSE ChatResponse(ContentOf(c), c.model)

\* native failures of a provider call; "silent" is an exception whose str()
\* is empty
ProviderFailures == {"rate_limit", "auth", "bad_request", "api", "other", "silent"}

\* the except clauses of _handle_openai_response and _handle_anthropic_response,
\* and the single clause of the ollama and gemini handlers
MapFailure(p, failure) ==
    CASE p = "ollama" -> "Ollama API error"
      [] p = "gemini" -> "Gemini API error"
      [] failure = "rate_limit" -> "Rate limit exceeded. Please try again later."
      [] failure = "auth" -> "Authentication failed. Please check your API key."
      [] failure \in {"bad_request", "api"} -> "API error"
      [] failure = "silent" -> ""
      [] OTHER -> "native error"

\* the class of the native exception: the SDKs' RateLimitError,
\* AuthenticationError and BadRequestError are APIErrors; the others are not
NativeType(failure) ==
    CASE failure = "rate_limit" -> "RateLimitError"
      [] failure = "auth" -> "AuthenticationError"
      [] failure = "bad_request" -> "BadRequestError"
      [] failure = "api" -> "APIError"
      [] failure = "silent" -> "TimeoutError"
      [] OTHER -> "RuntimeError"

\* the class of what the handler raises: `raise Exception(...)` in every clause
\* but the last of the openai and anthropic handlers, which re-raises
RaisedType(p, failure) ==
    IF p \in {"openai", "anthropic"} /\ failure \in {"other", "silent"}
    THEN NativeType(failure)
    ELSE "Exception"

\* search_service.format_for_llm(search_results)
format_for_llm(found) ==
    IF found THEN Text("Web Search Results:") ELSE Text("No search results found.")

\* "\n".join(tool_results)
RECURSIVE Join(_)
Join(parts) ==
    IF parts = <<>> THEN NoContent
    ELSE IF Len(parts) = 1 THEN parts[1]
    ELSE parts[1] \o Text("\n") \o Join(Tail(parts))

-----------------------------------------------------------------------------
(* LLMService.generate_response.                                           *)

\* the invocation the event loop is running or has run last: the locals of
\* its coroutine
Invocation ==
    [op |-> op, req |-> req, pc |-> pc, calls |-> calls, fmsgs |-> fmsgs,
     pending |-> pending, tool_results |-> tool_results, executed |-> executed,
     result |-> result, chunks |-> chunks, native |-> native]

\* a coroutine of the service is entered: the service keeps no state of an
\* invocation, so one that is suspended at its await stays as it is
Enters ==
    IF pc \in {"idle", "done"}
    THEN UNCHANGED others
    ELSE /\ Len(others) < MaxInFlight - 1
         /\ others' = Append(others, Invocation)

\* the event loop turns to another invocation in flight
Switches(i) ==
    /\ i \in 1..Len(others)
    /\ op' = others[i].op
    /\ req' = others[i].req
    /\ pc' = others[i].pc
    /\ calls' = others[i].calls
    /\ fmsgs' = others[i].fmsgs
    /\ pending' = others[i].pending
    /\ tool_results' = others[i].tool_results
    /\ executed' = others[i].executed
    /\ result' = others[i].result
    /\ chunks' = others[i].chunks
    /\ native' = others[i].native
    /\ others' = [others EXCEPT ![i] = Invocation]

\* the handler returns or raises
Finish(outcome) ==
    /\ result' = outcome
    /\ pc' = "done"

\* the handler issues a provider call and awaits it
Await(prior, call) ==
    /\ calls' = Append(prior, call)
    /\ pc' = "call"
    /\ result' = NoResult

\* LLMService._handle_openai_response, up to the awaited create(); an
\* AttributeError of get_client is re-raised by the last except clause
_handle_openai_response(request) ==
    /\ get_client("openai")
    /\ fmsgs' = format_messages(request.messages)
    /\ IF GetClientRaises("openai")
       THEN /\ Finish(ExceptionOf("AttributeError",
                                  NoAttribute(MissingName("openai", settings))))
            /\ calls' = <<>>
       ELSE Await(<<>>, Call("openai", ClientOf("openai"), OrModel(request.model, svc.model),
                       format_messages(request.messages), FALSE, request.stream))

\* LLMService._handle_anthropic_response, up to the awaited create()
_handle_anthropic_response(request) ==
    /\ get_client("anthropic")
    /\ fmsgs' = format_messages(request.messages)
    /\ IF GetClientRaises("anthropic")
       THEN /\ Finish(ExceptionOf("AttributeError",
                                  NoAttribute(MissingName("anthropic", settings))))
            /\ calls' = <<>>
       ELSE Await(<<>>, Call("anthropic", ClientOf("anthropic"), OrModel(request.model, svc.model),
                       format_messages(request.messages), FALSE, request.stream))

\* LLMService._handle_gemini_response, up to the awaited generate_content
_handle_gemini_response(request) ==
    /\ get_client("gemini")
    /\ fmsgs' = conversation(request.messages)
    /\ Await(<<>>, Call("gemini", ClientOf("gemini"), OrModel(request.model, svc.model),
                  conversation(request.messages), FALSE, request.stream))

\* LLMService._handle_ollama_response, up to the first awaited chat():
\* search_service is imported, whose module constructs SearchService() from
\* settings.EXA_API_KEY and settings.EXA_SEARCH_ENABLED; the client is
\* acquired; then request.enable_search is read, which raises AttributeError
\* on a request that has no such attribute.  The handler's `except Exception`
\* turns each of these exceptions into "Ollama API error".
_handle_ollama_response(request) ==
    LET model == OrModel(request.model, svc.model)
    IN  IF search_service.kind # "service"
        THEN /\ Finish(Raised("Ollama API error"))
             /\ calls' = <<>>
             /\ fmsgs' = <<>>
             /\ UNCHANGED <<clients, constructed>>
        ELSE /\ get_client("ollama")
             /\ fmsgs' = format_messages(request.messages)
             /\ IF GetClientRaises("ollama") \/ request.enable_search = "unset"
                THEN /\ Finish(Raised("Ollama API error"))
                     /\ calls' = <<>>
                ELSE Await(<<>>, Call("ollama", ClientOf("ollama"), model,
                                format_messages(request.messages),
                                ToolsAttached(settings, search_service, request, model), FALSE))

\* the else branch of generate_response
UnsupportedProvider ==
    /\ Finish(ExceptionOf("ValueError", "Unsupported provider"))
    /\ calls' = <<>>
    /\ fmsgs' = <<>>
    /\ UNCHANGED <<clients, constructed>>

\* `provider = request.provider or self.provider`
EffectiveProvider(request) == Or(request.provider, svc.provider)

\* LLMService.generate_response(request), up to its first suspension
generate_response(request) ==
    /\ Enters
    /\ op' = "generate"
    /\ req' = request
    /\ pending' = <<>>
    /\ tool_results' = <<>>
    /\ executed' = <<>>
    /\ chunks' = <<>>
    /\ native' = <<>>
    /\ LET provider == EffectiveProvider(request)
       IN  CASE provider = "openai" -> _handle_openai_response(request)
             [] provider = "anthropic" -> _handle_anthropic_response(request)
             [] provider = "gemini" -> _handle_gemini_response(request)
             [] provider = "ollama" -> _handle_ollama_response(request)
             [] OTHER -> UnsupportedProvider
    /\ UNCHANGED <<svc, settings, search_service, poolVars>>

-----------------------------------------------------------------------------
(* The tool exchange of _handle_ollama_response.                           *)

\* `for tool_call in ...: if name == "web_search":` passes over other tools
RECURSIVE SkipOtherTools(_)
SkipOtherTools(tcalls) ==
    IF tcalls = <<>> \/ tcalls[1].name = "web_search"
    THEN tcalls
    ELSE SkipOtherTools(Tail(tcalls))

\* the two messages appended before the second call
WithToolResults(messages, partial, results) ==
    messages \o << [role |-> "assistant", content |-> partial],
                   [role |-> "user",
                    content |-> Text("Search Results:") \o Text("\n") \o Join(results)] >>

\* The loop over the tool calls from `tcalls` on, with `results` gathered so
\* far and `answered` the calls issued so far: it runs to the next awaited
\* search, to a json.loads that raises, or to its end; at its end the second
\* chat() is issued when tool_results is non-empty, and the first response is
\* returned otherwise.
ToolLoop(tcalls, results, answered) ==
    LET rest == SkipOtherTools(tcalls)
        first == answered[1]
    IN  IF rest # <<>> /\ rest[1].args = "bad"
        THEN /\ Finish(Raised("Ollama API error"))
             /\ pending' = <<>>
             /\ calls' = answered
             /\ UNCHANGED fmsgs
        ELSE IF rest # <<>>
        THEN /\ pc' = "search"
             /\ pending' = rest
             /\ calls' = answered
             /\ UNCHANGED <<fmsgs, result>>
        ELSE IF results # <<>>
        THEN /\ pending' = <<>>
             /\ fmsgs' = WithToolResults(fmsgs, ollama_content(first.reply.body), results)
             /\ Await(answered,
                      Call("ollama", first.client, first.model,
                           WithToolResults(fmsgs, ollama_content(first.reply.body), results),
                           FALSE, FALSE))
        ELSE /\ Finish(Returned(first))
             /\ pending' = <<>>
             /\ calls' = answered
             /\ UNCHANGED fmsgs

\* generate_response were it to run the tool loop on every response that
\* holds tool calls, the response to the second call included
ProviderRespondsLooping(response, tcalls) ==
    /\ pc = "call"
    /\ op = "generate"
    /\ LET n == Len(calls)
           c == calls[n]
           answered == [calls EXCEPT ![n].reply =
                           [status |-> "ok", body |-> response.body,
                            usage |-> response.usage, tool_calls |-> tcalls,
                            failure |-> "none"]]
       IN  /\ WellShaped(c.provider, response.body)
           /\ (c.provider # "ollama" => tcalls = <<>>)
           /\ IF c.provider = "ollama" /\ tcalls # <<>>
              THEN /\ ToolLoop(tcalls, tool_results, answered)
                   /\ UNCHANGED <<tool_results, executed>>
              ELSE /\ Finish(Returned(answered[n]))
                   /\ calls' = answered
                   /\ UNCHANGED <<fmsgs, pending, tool_results, executed>>
    /\ UNCHANGED <<svc, settings, search_service, others, clients, constructed, op, req, chunks, native, poolVars, apiVars, outerVars>>

\* The provider answers the awaited call of generate_response with the
\* native answer `response`, and the handler goes on: the tool loop on the
\* answer to a call with tools, else the content is taken from the answer and
\* the ChatResponse returned.  Only ollama responses carry tool calls.
ProviderResponds(response, tcalls) ==
    /\ pc = "call"
    /\ op = "generate"
    /\ LET n == Len(calls)
           c == calls[n]
           answered == [calls EXCEPT ![n].reply =
                           [status |-> "ok", body |-> response.body,
                            usage |-> response.usage, tool_calls |-> tcalls,
                            failure |-> "none"]]
       IN  /\ WellShaped(c.provider, response.body)
           /\ (c.provider # "ollama" => tcalls = <<>>)
           /\ IF c.provider = "ollama" /\ c.tools /\ tcalls # <<>>
              THEN /\ ToolLoop(tcalls, <<>>, answered)
                   /\ UNCHANGED <<tool_results, executed>>
              ELSE /\ Finish(Returned(answered[n]))
                   /\ calls' = answered
                   /\ UNCHANGED <<fmsgs, pending, tool_results, executed>>
    /\ UNCHANGED <<svc, settings, search_service, others, clients, constructed, op, req, chunks, native, poolVars, apiVars, outerVars>>

\* a handler that issues a failed first call once more
ProviderFailsRetrying(failure) ==
    /\ pc = "call"
    /\ op = "generate"
    /\ LET n == Len(calls)
           marked == [calls EXCEPT ![n].reply.status = "failed",
                                   ![n].reply.failure = failure]
       IN  IF n = 1
           THEN Await(marked, [calls[n] EXCEPT !.reply = NoReply])
           ELSE /\ calls' = marked
                /\ Finish(ExceptionOf(RaisedType(calls[n].provider, failure),
                                      MapFailure(calls[n].provider, failure)))
    /\ UNCHANGED <<svc, settings, search_service, others, clients, constructed, op, req, fmsgs, pending, tool_results,
                   executed, chunks, native, poolVars, apiVars, outerVars>>

\* The awaited call of generate_response raises a native failure.
ProviderFails(failure) ==
    /\ pc = "call"
    /\ op = "generate"
    /\ LET n == Len(calls)
       IN  /\ calls' = [calls EXCEPT ![n].reply.status = "failed",
                                     ![n].reply.failure = failure]
           /\ Finish(ExceptionOf(RaisedType(calls[n].provider, failure),
                                 MapFailure(calls[n].provider, failure)))
    /\ UNCHANGED <<svc, settings, search_service, others, clients, constructed, op, req, fmsgs, pending, tool_results,
                   executed, chunks, native, poolVars, apiVars, outerVars>>

\* search_service.search returns (it swallows its own failures and returns no
\* results); the result is formatted and appended, and the loop goes on.
SearchReturns(found) ==
    /\ pc = "search"
    /\ found => search_service.client
    /\ executed' = Append(executed, pending[1])
    /\ tool_results' = Append(tool_results, format_for_llm(found))
    /\ ToolLoop(Tail(pending), Append(tool_results, format_for_llm(found)), calls)
    /\ UNCHANGED <<svc, settings, search_service, others, clients, constructed, op, req, chunks, native, poolVars, apiVars, outerVars>>

-----------------------------------------------------------------------------
(* LLMService.stream_response.                                             *)

StreamEnd ==
    [kind |-> "end", role |-> "none", content |-> NoContent,
     model |-> NoModel, error |-> "none", type |-> "none"]

\* yield f"Error: {str(e)}"
ErrorChunk(error) == Text("Error: ") \o Text(error)

\* what a provider's stream may deliver as the text of one native chunk
NativeDeltas == {Text("He"), NoContent, Text(" ")}

\* a test before `yield` that also drops deltas of white space alone
ForwardedStripped(p, delta) == delta \notin {NoContent, Text(" ")}

\* the test each branch of stream_response applies before `yield`:
\* `if delta`, `if ... block.text`, `if text`; the ollama branch tests only
\* that the chunk has a content key
Forwarded(p, delta) == IF p = "ollama" THEN TRUE ELSE delta # NoContent

\* the except clause of stream_response: `yield f"Error: {str(e)}"`; the
\* generator is suspended at the yield
Yields(yielded) ==
    /\ chunks' = yielded
    /\ pc' = "yielded"
    /\ result' = NoResult

\* the except clause of stream_response after chunks were yielded
StreamError(error) == Yields(Append(chunks, ErrorChunk(error)))

\* LLMService.stream_response(request), from the first pull up to the awaited
\* call that opens the stream.  The ollama branch reads self.ollama_base_url,
\* which __post_init__ sets only when the service's own provider is ollama,
\* and constructs a client of its own; the last branch (gemini) takes every
\* other provider id.
stream_response(request) ==
    /\ Enters
    /\ op' = "stream"
    /\ req' = request
    /\ pending' = <<>>
    /\ tool_results' = <<>>
    /\ executed' = <<>>
    /\ native' = <<>>
    /\ fmsgs' = format_messages(request.messages)
    /\ LET provider == EffectiveProvider(request)
           model == OrModel(request.model, svc.model)
           formatted_messages == format_messages(request.messages)
       IN  CASE provider = "openai" ->
                  /\ get_client("openai")
                  /\ IF GetClientRaises("openai")
                     THEN /\ Yields(<<ErrorChunk(NoAttribute(MissingName("openai", settings)))>>)
                          /\ calls' = <<>>
                     ELSE /\ chunks' = <<>>
                          /\ Await(<<>>, Call("openai", ClientOf("openai"), model,
                                              formatted_messages, FALSE, TRUE))
             [] provider = "anthropic" ->
                  /\ get_client("anthropic")
                  /\ IF GetClientRaises("anthropic")
                     THEN /\ Yields(<<ErrorChunk(NoAttribute(MissingName("anthropic", settings)))>>)
                          /\ calls' = <<>>
                     ELSE /\ chunks' = <<>>
                          /\ Await(<<>>, Call("anthropic", ClientOf("anthropic"), model,
                                              formatted_messages, FALSE, TRUE))
             [] provider = "ollama" ->
                  IF ~svc.has_ollama_base_url
                  THEN /\ Yields(<<ErrorChunk("no attribute ollama_base_url")>>)
                       /\ calls' = <<>>
                       /\ UNCHANGED <<clients, constructed>>
                  ELSE /\ constructed["ollama"] < MaxOwnClients
                       /\ constructed' = [constructed EXCEPT !["ollama"] = @ + 1]
                       /\ chunks' = <<>>
                       /\ Await(<<>>, Call("ollama", constructed["ollama"] + 1, model,
                                           formatted_messages, FALSE, TRUE))
                       /\ UNCHANGED clients
             [] OTHER ->
                  /\ get_client("gemini")
                  /\ chunks' = <<>>
                  /\ Await(<<>>, Call("gemini", ClientOf("gemini"), model,
                                      conversation(request.messages), FALSE, TRUE))
    /\ UNCHANGED <<svc, settings, search_service, poolVars>>

\* the awaited call returns the provider's stream
StreamOpens ==
    /\ pc = "call"
    /\ op = "stream"
    /\ calls' = [calls EXCEPT ![Len(calls)].reply.status = "ok"]
    /\ pc' = "stream"
    /\ UNCHANGED <<svc, settings, search_service, others, clients, constructed, op, req, fmsgs, pending, tool_results,
                   executed, result, chunks, native, poolVars, apiVars, outerVars>>

\* a native chunk reaches the consumer ahead of those already yielded
NativeChunkReordered(delta) ==
    /\ pc = "stream"
    /\ Len(native) < MaxChunks
    /\ native' = Append(native, delta)
    /\ chunks' = IF Forwarded(calls[Len(calls)].provider, delta)
                 THEN <<delta>> \o chunks
                 ELSE chunks
    /\ UNCHANGED <<svc, settings, search_service, others, clients, constructed, op, req, pc, calls, fmsgs, pending,
                   tool_results, executed, result, poolVars, apiVars, outerVars>>

\* `async for chunk in stream`: the next native chunk arrives
NativeChunk(delta) ==
    /\ pc = "stream"
    /\ Len(native) < MaxChunks
    /\ native' = Append(native, delta)
    /\ chunks' = IF Forwarded(calls[Len(calls)].provider, delta)
                 THEN Append(chunks, delta)
                 ELSE chunks
    /\ UNCHANGED <<svc, settings, search_service, others, clients, constructed, op, req, pc, calls, fmsgs, pending,
                   tool_results, executed, result, poolVars, apiVars, outerVars>>

\* the provider's stream is exhausted
StreamExhausted ==
    /\ pc = "stream"
    /\ Finish(StreamEnd)
    /\ UNCHANGED <<svc, settings, search_service, others, clients, constructed, op, req, calls, fmsgs, pending,
                   tool_results, executed, chunks, native, poolVars, apiVars, outerVars>>

\* the generator, suspended at the yield of its except clause, is pulled
\* again: it ends
StreamEnds ==
    /\ pc = "yielded"
    /\ Finish(StreamEnd)
    /\ UNCHANGED <<svc, settings, search_service, others, clients, constructed, op, req, calls,
                   fmsgs, pending, tool_results, executed, chunks, native, poolVars, apiVars,
                   outerVars>>

\* the call that opens the stream, or the stream while it is read, raises
StreamFails(failure) ==
    /\ pc \in {"call", "stream"}
    /\ op = "stream"
    /\ calls' = [calls EXCEPT ![Len(calls)].reply.status = "failed"]
    /\ StreamError(failure)
    /\ UNCHANGED <<svc, settings, search_service, others, clients, constructed, op, req, fmsgs, pending, tool_results,
                   executed, native, poolVars, apiVars, outerVars>>

-----------------------------------------------------------------------------
(* The service and the requests submitted to it.                           *)

\* LLMService(provider=...) and __post_init__ under the settings s: the
\* instance, or the AttributeError of reading settings.OLLAMA_BASE_URL
LLMService(provider, s) ==
    IF provider = "ollama" /\ ~s.OLLAMA_BASE_URL
    THEN ExceptionOf("AttributeError", NoAttribute("OLLAMA_BASE_URL"))
    ELSE [kind |-> "service", provider |-> provider, model |-> DefaultModel,
          has_ollama_base_url |-> (provider = "ollama")]

\* the services of the given providers that can be constructed
Services(providers, s) ==
    {service \in {LLMService(p, s) : p \in providers} : service.kind = "service"}

\* the client addresses requests come from
ClientIps == {"10.0.0.1", "10.0.0.2"}

\* f"client_{req.client.host}"
ClientThread(client_ip) ==
    IF client_ip = "10.0.0.1" THEN "client_10.0.0.1" ELSE "client_10.0.0.2"

\* the threads of the agent: that of the default thread_id and one per client
ThreadIds == {"default"} \cup {ClientThread(client_ip) : client_ip \in ClientIps}

\* the channels of AgentState kept for a thread that has not run
NoCheckpoint(thread_id) ==
    [thread |-> thread_id, request |-> ChatRequest(<<>>, NoModel, 7, None),
     response |-> NoResult, error |-> None, processing_complete |-> FALSE]

\* _rate_limit_store.get(ip) before the first request of the address
NoEntry == [present |-> FALSE, count |-> 0, window_start |-> 0]

\* close_all_clients before it is called
NotClosing == [pc |-> "idle", at |-> 0, size |-> 0]

\* before the first get_<provider>_client
NoAcquisition ==
    [provider |-> "none", status |-> "none", client |-> 0, tried |-> FALSE,
     after_failure |-> FALSE, was_closed |-> FALSE]

\* the state of a fresh process, whatever the provider will answer
Started ==
    /\ clients = [p \in KnownProviders |-> 0]
    /\ constructed = [p \in KnownProviders |-> 0]
    /\ op = "none"
    /\ req = ChatRequest(<<>>, NoModel, 7, None)
    /\ pc = "idle"
    /\ others = <<>>
    /\ calls = <<>>
    /\ fmsgs = <<>>
    /\ pending = <<>>
    /\ tool_results = <<>>
    /\ executed = <<>>
    /\ result = NoResult
    /\ chunks = <<>>
    /\ native = <<>>
    /\ tpc = [t \in 1..NThreads |-> "idle"]
    /\ tprov = [t \in 1..NThreads |-> "openai"]
    /\ tgot = [t \in 1..NThreads |-> 0]
    /\ http = [endpoint |-> "none", status |-> 0, detail |-> "none"]
    /\ reached = [agent |-> FALSE, service |-> FALSE]
    /\ generated = NoResult
    /\ egen = "none"
    /\ agent = NoCheckpoint("default")
    /\ saved = [thread_id \in ThreadIds |-> NoCheckpoint(thread_id)]
    /\ anode = "idle"
    /\ atrace = <<>>
    /\ held = <<>>
    /\ closed = {}
    /\ closer = NotClosing
    /\ app = "running"
    /\ acquired = NoAcquisition
    /\ failed = [p \in KnownProviders |-> FALSE]
    /\ counters = [provider |-> "none", prompt |-> Absent, completion |-> Absent,
                    total |-> Absent]
    /\ usage = NotTranslated
    /\ delivered = [kind |-> "none", response |-> NoResult, message |-> None]
    /\ store = [ip \in ClientIps |-> NoEntry]
    /\ clock = 0
    /\ admitted = [ip \in ClientIps |-> <<>>]
    /\ verdict = [ip |-> "none", time |-> 0, status |-> 0, before |-> 0, started |-> 0]

\* the state of a fresh process
Fresh ==
    /\ Started
    /\ script = <<>>

Conversations == SeqsUpTo({Message(r, Text("q")) : r \in RoleInputs}, MaxMsgs)

WithSearchFlag(requests) ==
    requests \cup {SetEnableSearch(r, v) : r \in requests, v \in {"on", "off"}}

-----------------------------------------------------------------------------
(* Gateway: one invocation of the service in a fresh process, on any       *)
(* conversation and any provider override, with or without a model.        *)

GatewayRequests ==
    WithSearchFlag({ChatRequest(m, model, 7, p) :
                       m \in Conversations, model \in {NoModel, MISTRAL},
                       p \in ProviderInputs})

Init ==
    /\ settings \in {DeclaredSettings, CompleteSettings(TRUE)}
    /\ search_service = WorkingSearch(settings)
    /\ svc \in Services(KnownProviders, settings)
    /\ Fresh

Generate ==
    \E request \in GatewayRequests :
        pc = "idle" /\ generate_response(request) /\ UNCHANGED <<apiVars, outerVars>>

Stream ==
    \E request \in GatewayRequests :
        pc = "idle" /\ stream_response(SetStream(request)) /\ UNCHANGED <<apiVars, outerVars>>

Responds == \E content \in ReplyContents : ProviderResponds(Answer(content), <<>>)

Fails == ProviderFails("auth") \/ ProviderFails("other")

Delivers == NativeChunk(Text("He"))

Breaks == StreamFails("other")

Next ==
    \/ Generate
    \/ Stream
    \/ Responds
    \/ Fails
    \/ StreamOpens
    \/ Delivers
    \/ StreamExhausted
    \/ StreamEnds
    \/ Breaks

Spec == Init /\ [][Next]_vars

-----------------------------------------------------------------------------
(* Tool exchange: one generate_response on the ollama adapter, with every  *)
(* model name, search switched on or off, and every list of tool calls in  *)
(* the first response.                                                     *)

ToolCallLists == SeqsUpTo(ToolCallKinds, MaxToolCalls)

ToolRequests ==
    WithSearchFlag({ChatRequest(<<Message("system", Text("q")), Message("user", Text("q"))>>,
                                model, 7, p) :
                       model \in {NoModel, LLAMA, GPTOSS, MISTRAL}, p \in {None, "ollama"}})

InitTools ==
    /\ settings \in SettingsObjects
    /\ search_service \in SearchServices(settings)
    /\ svc \in Services({"ollama", "gemini"}, settings)
    /\ Fresh

GenerateTools ==
    \E request \in ToolRequests :
        pc = "idle" /\ generate_response(request) /\ UNCHANGED <<apiVars, outerVars>>

\* the first response carries any list of tool calls, a later one at most one
RespondsTools ==
    \E content \in ReplyContents, tcalls \in ToolCallLists :
        /\ (Len(calls) > 1 => Len(tcalls) <= 1)
        /\ ProviderResponds(Answer(content), tcalls)

Searched == \E found \in BOOLEAN : SearchReturns(found)

NextTools ==
    \/ GenerateTools
    \/ RespondsTools
    \/ Fails
    \/ Searched

SpecTools == InitTools /\ [][NextTools]_vars

-----------------------------------------------------------------------------
(* Sequence: any sequence of invocations of the service in one process.    *)

SequenceRequests ==
    {SetEnableSearch(ChatRequest(<<Message("user", Text("q"))>>, NoModel, 7, p), v) :
        p \in ProviderInputs, v \in {"unset", "off"}}

\* an invocation starts when the one before it is over
GenerateAgain ==
    \E request \in SequenceRequests :
        /\ pc \in {"idle", "done"}
        /\ generate_response(request)
        /\ UNCHANGED <<apiVars, outerVars>>

StreamAgain ==
    \E request \in SequenceRequests :
        /\ pc \in {"idle", "done"}
        /\ stream_response(SetStream(request))
        /\ UNCHANGED <<apiVars, outerVars>>

RespondsPlain == ProviderResponds(Answer(Text("A")), <<>>)

FailsPlain == ProviderFails("other")

NextSequence ==
    \/ GenerateAgain
    \/ StreamAgain
    \/ RespondsPlain
    \/ FailsPlain
    \/ StreamOpens
    \/ Delivers
    \/ StreamExhausted
    \/ StreamEnds
    \/ Breaks

SpecSequence == Init /\ [][NextSequence]_vars

-----------------------------------------------------------------------------
(* Concurrent invocations: coroutines of generate_response and             *)
(* stream_response on the one service, started while others are suspended  *)
(* at their awaits; they share the pool of clients.                        *)

ConcurrentRequests ==
    {ChatRequest(<<Message("user", Text("q"))>>, NoModel, 7, p) :
        p \in {None, "anthropic", "gemini"}}

GenerateMeanwhile ==
    \E request \in ConcurrentRequests :
        generate_response(request) /\ UNCHANGED <<apiVars, outerVars>>

StreamMeanwhile ==
    \E request \in ConcurrentRequests :
        stream_response(SetStream(request)) /\ UNCHANGED <<apiVars, outerVars>>

Resumes ==
    \E i \in 1..Len(others) :
        /\ Switches(i)
        /\ UNCHANGED <<svc, settings, search_service, clients, constructed, poolVars, apiVars, outerVars>>

InitConcurrent ==
    /\ settings = CompleteSettings(TRUE)
    /\ search_service = WorkingSearch(settings)
    /\ svc = LLMService("openai", settings)
    /\ Fresh

NextConcurrent ==
    \/ GenerateMeanwhile
    \/ StreamMeanwhile
    \/ Resumes
    \/ RespondsPlain
    \/ FailsPlain
    \/ StreamOpens
    \/ Delivers
    \/ StreamExhausted
    \/ StreamEnds
    \/ Breaks

SpecConcurrent == InitConcurrent /\ [][NextConcurrent]_vars

-----------------------------------------------------------------------------
(* Pool: threads calling ClientManager.get_<provider>_client.  The method  *)
(* takes no lock (ClientManager._lock guards __new__ only), so a thread    *)
(* can be preempted between its test of the map, its construction of the   *)
(* client and its return.                                                  *)

\* a thread enters get_<provider>_client and tests `provider not in self._clients`
AcquireTest(t, p) ==
    /\ tpc[t] \in {"idle", "returned", "raised"}
    /\ tprov' = [tprov EXCEPT ![t] = p]
    /\ tpc' = [tpc EXCEPT ![t] = IF clients[p] = 0 THEN "construct" ELSE "return"]
    /\ tgot' = [tgot EXCEPT ![t] = 0]
    /\ UNCHANGED <<svc, settings, search_service, others, clients, constructed, svcVars, apiVars, outerVars>>

\* self._clients[provider] = <a new client>, or the AttributeError of a name
\* the settings do not hold, which leaves the method
AcquireConstruct(t) ==
    /\ tpc[t] = "construct"
    /\ IF MissingName(tprov[t], settings) # None
       THEN /\ tpc' = [tpc EXCEPT ![t] = "raised"]
            /\ UNCHANGED <<clients, constructed>>
       ELSE /\ constructed[tprov[t]] < MaxOwnClients
            /\ constructed' = [constructed EXCEPT ![tprov[t]] = @ + 1]
            /\ clients' = [clients EXCEPT ![tprov[t]] = constructed[tprov[t]] + 1]
            /\ tpc' = [tpc EXCEPT ![t] = "return"]
    /\ UNCHANGED <<svc, settings, search_service, others, tprov, tgot, svcVars, apiVars, outerVars>>

\* return self._clients[provider]
AcquireReturn(t) ==
    /\ tpc[t] = "return"
    /\ tgot' = [tgot EXCEPT ![t] = clients[tprov[t]]]
    /\ tpc' = [tpc EXCEPT ![t] = "returned"]
    /\ UNCHANGED <<svc, settings, search_service, others, clients, constructed, tprov, svcVars, apiVars, outerVars>>

InitPool ==
    /\ settings \in {DeclaredSettings, CompleteSettings(TRUE)}
    /\ search_service = WorkingSearch(settings)
    /\ svc = LLMService("openai", settings)
    /\ Fresh

NextPool ==
    \/ \E t \in 1..NThreads, p \in {"openai", "ollama"} : AcquireTest(t, p)
    \/ \E t \in 1..NThreads : AcquireConstruct(t)
    \/ \E t \in 1..NThreads : AcquireReturn(t)

SpecPool == InitPool /\ [][NextPool]_vars

-----------------------------------------------------------------------------
(* Mocked provider: generate_response and then stream_response on the same *)
(* request, against a provider that answers every call with the same text, *)
(* whole or as the stream of its deltas.                                   *)

InitMocked ==
    /\ settings \in {DeclaredSettings, CompleteSettings(TRUE)}
    /\ search_service = WorkingSearch(settings)
    /\ svc \in Services(KnownProviders, settings)
    /\ Started
    /\ script \in SeqsUpTo(NativeDeltas, MaxChunks)

GenerateMocked ==
    \E request \in SequenceRequests :
        pc = "idle" /\ generate_response(request) /\ UNCHANGED <<apiVars, outerVars>>

\* the mocked provider returns its whole text
RespondsMocked == ProviderResponds(Answer(Concat(script)), <<>>)

\* the same request is streamed once generate_response is over
StreamMocked ==
    /\ pc = "done"
    /\ op = "generate"
    /\ generated' = result
    /\ stream_response(req)
    /\ UNCHANGED <<apiVars, script, agentVars, limitVars, usageVars, lifeVars>>

\* the mocked provider's stream delivers its next delta
DeliversMocked ==
    /\ Len(native) < Len(script)
    /\ NativeChunk(script[Len(native) + 1])

ExhaustedMocked ==
    /\ Len(native) = Len(script)
    /\ StreamExhausted

NextMocked ==
    \/ GenerateMocked
    \/ RespondsMocked
    \/ StreamMocked
    \/ StreamOpens
    \/ DeliversMocked
    \/ ExhaustedMocked
    \/ StreamEnds

SpecMocked == InitMocked /\ [][NextMocked]_vars

-----------------------------------------------------------------------------
(* Agent: LangGraphAgent.invoke.  The graph is compiled with a MemorySaver *)
(* checkpointer and invoked with the thread's id, so the channels of       *)
(* AgentState that a run does not write keep the values the thread's       *)
(* previous run left.                                                      *)

\* `if state.get("error")`, `if result.get("error")`
HasError(state) == state.error \notin {None, ""}

\* `if state.get("response")`, `if not result.get("response")`
HasResponse(state) == state.response.kind = "response"

\* invoke(request, thread_id): initial_state is written over the thread's
\* checkpoint and the graph starts at its entry point
AgentInvoke(request, thread_id) ==
    /\ agent' = [(IF thread_id = agent.thread THEN agent ELSE saved[thread_id])
                    EXCEPT !.request = request, !.processing_complete = FALSE]
    /\ saved' = [saved EXCEPT ![agent.thread] = agent]
    /\ anode' = "initialize"
    /\ atrace' = <<>>
    /\ delivered' = [kind |-> "none", response |-> NoResult, message |-> None]

\* LangGraphAgent._initialize_state
_initialize_state ==
    /\ anode = "initialize"
    /\ agent' = [agent EXCEPT !.error = None, !.processing_complete = FALSE]
    /\ anode' = "llm_call"
    /\ atrace' = Append(atrace, "initialize")
    /\ UNCHANGED <<svc, settings, search_service, others, clients, constructed, svcVars, poolVars, apiVars, mockVars,
                   limitVars, usageVars, lifeVars, delivered, saved>>

\* LangGraphAgent._llm_node, up to the awaited llm_service.generate_response
_llm_node ==
    /\ anode = "llm_call"
    /\ atrace' = Append(atrace, "llm_call")
    /\ IF HasError(agent)
       THEN /\ agent' = [agent EXCEPT !.processing_complete = TRUE]
            /\ anode' = "finalize"
            /\ UNCHANGED <<svc, settings, search_service, others, clients, constructed, svcVars, poolVars,
                           reached>>
       ELSE /\ generate_response(agent.request)
            /\ reached' = [reached EXCEPT !.service = TRUE]
            /\ anode' = "llm_wait"
            /\ UNCHANGED agent
    /\ UNCHANGED <<http, egen, mockVars, limitVars, usageVars, lifeVars, delivered, saved>>

\* _llm_node after the await: the response is stored, or the exception is
\* caught and its str() recorded
LlmReturns ==
    /\ anode = "llm_wait"
    /\ pc = "done"
    /\ agent' = IF result.kind = "response"
                THEN [agent EXCEPT !.response = result]
                ELSE [agent EXCEPT !.error = result.error, !.processing_complete = TRUE]
    /\ anode' = "finalize"
    /\ UNCHANGED <<svc, settings, search_service, others, clients, constructed, svcVars, poolVars, apiVars, mockVars,
                   limitVars, usageVars, lifeVars, atrace, delivered, saved>>

\* LangGraphAgent._finalize_response; "scan" is the search of the response's
\* content for the sensitive patterns, `pattern.lower() in content.lower()`,
\* which raises on a content of None; the handler's except records the error
_finalize_response ==
    /\ anode = "finalize"
    /\ anode' = "end"
    /\ IF ~HasResponse(agent) /\ ~HasError(agent)
       THEN /\ agent' = [agent EXCEPT !.error = "No response generated",
                                      !.processing_complete = TRUE]
            /\ atrace' = Append(atrace, "finalize")
       ELSE IF HasResponse(agent) /\ agent.response.content = NoneContent
       THEN /\ agent' = [agent EXCEPT !.error = "'NoneType' object has no attribute 'lower'",
                                      !.processing_complete = TRUE]
            /\ atrace' = atrace \o <<"finalize", "scan">>
       ELSE /\ agent' = [agent EXCEPT !.processing_complete = TRUE]
            /\ atrace' = IF HasResponse(agent)
                         THEN atrace \o <<"finalize", "scan">>
                         ELSE Append(atrace, "finalize")
    /\ UNCHANGED <<svc, settings, search_service, others, clients, constructed, svcVars, poolVars, apiVars, mockVars,
                   limitVars, usageVars, lifeVars, delivered, saved>>

\* invoke after ainvoke: the checks of the final state
InvokeReturns ==
    /\ anode = "end"
    /\ anode' = "returned"
    /\ delivered' =
           IF HasError(agent)
           THEN [kind |-> "raised", response |-> NoResult, message |-> agent.error]
           ELSE IF ~HasResponse(agent)
           THEN [kind |-> "raised", response |-> NoResult, message |-> "No response generated"]
           ELSE [kind |-> "returned", response |-> agent.response, message |-> None]
    /\ UNCHANGED <<svc, settings, search_service, others, clients, constructed, svcVars, poolVars, apiVars, mockVars,
                   limitVars, usageVars, lifeVars, agent, atrace, saved>>

AgentRequests ==
    {ChatRequest(<<Message("user", Text("q"))>>, NoModel, 7, p) : p \in {None, "bogus"}}

\* a run of the default thread starts when the one before it is over
Invokes ==
    \E request \in AgentRequests :
        /\ anode \in {"idle", "returned"}
        /\ AgentInvoke(request, "default")
        /\ UNCHANGED <<svc, settings, search_service, others, clients, constructed, svcVars, poolVars, apiVars,
                       mockVars, limitVars, usageVars, lifeVars>>

FailsSilently == ProviderFails("silent")

\* the provider answers with a text that holds a sensitive pattern, or, on
\* openai, with a message whose content is None
RespondsOddly ==
    \E content \in {Text("sk-"), NoneContent} :
        /\ calls # <<>>
        /\ (content = NoneContent => calls[Len(calls)].provider = "openai")
        /\ ProviderResponds(Answer(content), <<>>)

NextAgent ==
    \/ Invokes
    \/ _initialize_state
    \/ _llm_node
    \/ Responds
    \/ Fails
    \/ FailsSilently
    \/ RespondsOddly
    \/ LlmReturns
    \/ _finalize_response
    \/ InvokeReturns

SpecAgent == Init /\ [][NextAgent]_vars

-----------------------------------------------------------------------------
(* The rate limiter of the endpoints (SpecLimiter): rate_limit_check and   *)
(* RateLimiter.__call__ keep one fixed window per client address.           *)

\* a variant of the limit test that lets one request more through
LimitedLate(client_data) == client_data.count > RATE_LIMIT_REQUESTS

\* if client_data["count"] >= settings.RATE_LIMIT_REQUESTS
Limited(client_data) == client_data.count >= RATE_LIMIT_REQUESTS

\* if current_time - client_data["window_start"] > settings.RATE_LIMIT_WINDOW
Expired(client_data, current_time) ==
    current_time - client_data.window_start > RATE_LIMIT_WINDOW

\* rate_limit_check(request) with request.client.host = client_ip; the call has
\* no await and runs to its end: 429 is raised, or the count is incremented.
rate_limit_check(client_ip) ==
    LET current_time == clock
        found == IF store[client_ip].present THEN store[client_ip]
                 ELSE [present |-> TRUE, count |-> 0, window_start |-> current_time]
        client_data == IF Expired(found, current_time)
                       THEN [found EXCEPT !.count = 0, !.window_start = current_time]
                       ELSE found
    IN  IF Limited(client_data)
           THEN /\ store' = [store EXCEPT ![client_ip] = client_data]
                /\ admitted' = admitted
                /\ verdict' = [ip |-> client_ip, time |-> current_time, status |-> 429,
                               before |-> found.count, started |-> found.window_start]
           ELSE /\ store' = [store EXCEPT ![client_ip] =
                                 [client_data EXCEPT !.count = client_data.count + 1]]
                /\ admitted' = [admitted EXCEPT ![client_ip] = Append(@, current_time)]
                /\ verdict' = [ip |-> client_ip, time |-> current_time, status |-> 200,
                               before |-> found.count, started |-> found.window_start]

\* a request of some client reaches a route
Checks ==
    \E client_ip \in ClientIps :
        /\ rate_limit_check(client_ip)
        /\ UNCHANGED <<svc, settings, search_service, others, clients, constructed, svcVars, poolVars, apiVars,
                       mockVars, agentVars, usageVars, lifeVars, clock>>

\* time.time() advances between two requests
Tick ==
    /\ clock < MaxClock
    /\ clock' = clock + 1
    /\ UNCHANGED <<svc, settings, search_service, others, clients, constructed, svcVars, poolVars, apiVars, mockVars,
                   agentVars, usageVars, lifeVars, store, admitted, verdict>>

NextLimiter ==
    \/ Checks
    \/ Tick

SpecLimiter == Init /\ [][NextLimiter]_vars

-----------------------------------------------------------------------------
(* API: the routes /chat, /chat/system and /chat/stream and the handlers   *)
(* of ChatController behind them.  Each route applies rate_limit_check     *)
(* first.  /chat and /chat/system await the agent, whose llm node awaits   *)
(* llm_service.generate_response; /chat/stream returns a StreamingResponse *)
(* whose event generator pulls llm_service.stream_response.                *)

\* the limits of ChatController.generate and generate_with_system
MaxConversation == 50
MaxContent == 10000
MaxSystemContent == 5000

\* len(text), a token counting as one character
CharLen(content) == Len(content)

\* str.strip(): a text of white space alone becomes empty
strip(content) == IF content = Text(" ") THEN NoContent ELSE content

\* thread_id of /chat: the X-Thread-ID header when it holds a value, and
\* f"client_{req.client.host}" otherwise
ThreadOf(header, client_ip) ==
    IF header \notin {None, ""} THEN header ELSE ClientThread(client_ip)

\* raise HTTPException(status_code=..., detail=...) before the agent or the
\* service is entered
HTTPException(endpoint, status, detail) ==
    /\ http' = [endpoint |-> endpoint, status |-> status, detail |-> detail]
    /\ reached' = [agent |-> FALSE, service |-> FALSE]
    /\ egen' = "none"
    /\ op' = "none"
    /\ UNCHANGED <<svc, settings, search_service, others, clients, constructed, pc, calls, fmsgs, pending,
                   tool_results, executed, result, chunks, native, poolVars, agentVars,
                   sideVars>>

\* `await self.agent.invoke(request, thread_id=thread_id)`, up to the first
\* node of the graph
invoke(endpoint, request, thread_id) ==
    /\ http' = [endpoint |-> endpoint, status |-> 0, detail |-> "none"]
    /\ reached' = [agent |-> TRUE, service |-> FALSE]
    /\ egen' = "none"
    /\ AgentInvoke(request, thread_id)
    /\ UNCHANGED <<svc, settings, search_service, others, clients, constructed, op, pc, calls, fmsgs, pending,
                   tool_results, executed, result, chunks, native, poolVars, sideVars>>

\* ChatController.generate were it to lack its test for an empty conversation
ControllerGenerateUnchecked(request, thread_id) ==
    IF Len(request.messages) > MaxConversation
    THEN HTTPException("chat", 400, "Too many messages in conversation")
    ELSE IF \E i \in 1..Len(request.messages) :
                CharLen(request.messages[i].content) > MaxContent
    THEN HTTPException("chat", 400, "Message content too long")
    ELSE invoke("chat", request, thread_id)

\* ChatController.generate(request, thread_id), up to the awaited agent
ControllerGenerate(request, thread_id) ==
    IF ~(request.messages # <<>>)
    THEN HTTPException("chat", 400, "Messages cannot be empty")
    ELSE IF Len(request.messages) > MaxConversation
    THEN HTTPException("chat", 400, "Too many messages in conversation")
    ELSE IF \E i \in 1..Len(request.messages) :
                CharLen(request.messages[i].content) > MaxContent
    THEN HTTPException("chat", 400, "Message content too long")
    ELSE invoke("chat", request, thread_id)

\* ChatController.generate_with_system(system_message, user_message,
\* temperature=...), up to the awaited agent; the thread is "default"
generate_with_system(system_message, user_message, temperature) ==
    LET request == ChatRequest(<<Message("system", strip(system_message)),
                                 Message("user", strip(user_message))>>,
                               NoModel, temperature, None)
    IN  IF strip(system_message) = NoContent
        THEN /\ HTTPException("chat_system", 400, "System message cannot be empty")
             /\ UNCHANGED req
        ELSE IF strip(user_message) = NoContent
        THEN /\ HTTPException("chat_system", 400, "User message cannot be empty")
             /\ UNCHANGED req
        ELSE IF CharLen(system_message) > MaxSystemContent
        THEN /\ HTTPException("chat_system", 400, "System message too long")
             /\ UNCHANGED req
        ELSE IF CharLen(user_message) > MaxContent
        THEN /\ HTTPException("chat_system", 400, "User message too long")
             /\ UNCHANGED req
        ELSE /\ req' = request
             /\ invoke("chat_system", request, "default")

\* ChatController.stream(request): the StreamingResponse is returned to the
\* framework; its event generator has not been started
ControllerStream(request) ==
    IF request.messages = <<>>
    THEN HTTPException("chat_stream", 400, "Messages cannot be empty")
    ELSE /\ http' = [endpoint |-> "chat_stream", status |-> 200, detail |-> "none"]
         /\ reached' = [agent |-> FALSE, service |-> FALSE]
         /\ egen' = "created"
         /\ UNCHANGED <<svc, settings, search_service, others, clients, constructed, op, pc, calls, fmsgs,
                        pending, tool_results, executed, result, chunks, native, poolVars,
                        agentVars, sideVars>>

\* the HTTPException of rate_limit_check leaves the route
TooManyRequests(endpoint) ==
    HTTPException(endpoint, 429, "Rate limit exceeded. Please try again later.")

\* the route /chat: chat(request, req) with req.client.host = client_ip and
\* the X-Thread-ID header of req; `req` keeps the body the route was given
chat(request, client_ip, header) ==
    /\ req' = request
    /\ rate_limit_check(client_ip)
    /\ UNCHANGED clock
    /\ IF verdict'.status = 429
       THEN TooManyRequests("chat")
       ELSE ControllerGenerate(request, ThreadOf(header, client_ip))

\* the route /chat/system: chat_with_system(system_message, user_message,
\* temperature=..., req)
chat_with_system(system_message, user_message, temperature, client_ip) ==
    /\ rate_limit_check(client_ip)
    /\ UNCHANGED clock
    /\ IF verdict'.status = 429
       THEN /\ TooManyRequests("chat_system")
            /\ UNCHANGED req
       ELSE IF ~(0 <= temperature /\ temperature <= 20)
       THEN /\ HTTPException("chat_system", 400, "Temperature must be between 0.0 and 2.0")
            /\ UNCHANGED req
       ELSE generate_with_system(system_message, user_message, temperature)

\* the route /chat/stream: chat_stream(request, req)
chat_stream(request, client_ip) ==
    /\ req' = request
    /\ rate_limit_check(client_ip)
    /\ UNCHANGED clock
    /\ IF verdict'.status = 429
       THEN TooManyRequests("chat_stream")
       ELSE ControllerStream(request)

\* a handler that answers 500 with the text of the exception it caught
ControllerReturnsExposing ==
    /\ anode = "returned"
    /\ http.endpoint \in {"chat", "chat_system"}
    /\ http.status = 0
    /\ http' = IF delivered.kind = "returned"
               THEN [http EXCEPT !.status = 200]
               ELSE [http EXCEPT !.status = 500, !.detail = delivered.message]
    /\ UNCHANGED <<svc, settings, search_service, others, clients, constructed, svcVars, reached, egen,
                   poolVars, outerVars>>

\* The awaited agent returns or raises: the handler answers with the response,
\* or turns the exception into HTTP 500.
ControllerReturns ==
    /\ anode = "returned"
    /\ http.endpoint \in {"chat", "chat_system"}
    /\ http.status = 0
    /\ http' = IF delivered.kind = "returned"
               THEN [http EXCEPT !.status = 200]
               ELSE [http EXCEPT !.status = 500,
                                 !.detail = IF http.endpoint = "chat"
                                            THEN "Failed to generate response. Please try again."
                                            ELSE "Failed to generate response with system message"]
    /\ UNCHANGED <<svc, settings, search_service, others, clients, constructed, svcVars, reached, egen,
                   poolVars, outerVars>>

\* event_generator up to its first yield: the role event is sent
SendsRole ==
    /\ egen = "created"
    /\ egen' = "role"
    /\ UNCHANGED <<svc, settings, search_service, others, clients, constructed, svcVars, http, reached,
                   poolVars, outerVars>>

\* event_generator is pulled again: `async for chunk in
\* self.service.stream_response(request)` enters the service's generator,
\* which runs to its first await
Pulls ==
    /\ egen = "role"
    /\ egen' = "pulling"
    /\ reached' = [reached EXCEPT !.service = TRUE]
    /\ stream_response(req)
    /\ UNCHANGED <<http, outerVars>>

\* no request is being handled and no response is being streamed
Quiet ==
    /\ pc \in {"idle", "done"}
    /\ anode \in {"idle", "returned"}
    /\ egen \notin {"created", "role"}
    /\ (http.endpoint = "none" \/ http.status # 0)

\* temperatures in tenths: the ends of the accepted range and one beyond each
Temperatures == {-1, 0, 20, 21}

\* conversations at the limit of ChatController.generate and one beyond it
LongConversations ==
    {[i \in 1..n |-> Message("user", Text("q"))] :
        n \in {MaxConversation, MaxConversation + 1}}

\* a request without messages
EmptyRequest == ChatRequest(<<>>, NoModel, 7, None)

\* one question at a temperature beyond each end of the range, and no
\* message, 50 and 51 messages at the default temperature
ApiRequests ==
    {ChatRequest(<<Message("user", Text("q"))>>, NoModel, t, None) : t \in {-1, 21}}
    \cup {EmptyRequest}
    \cup {ChatRequest(m, NoModel, 7, None) : m \in LongConversations}

\* the clients of the API send one request at a time, within one window of
\* the limiter
ApiClients == {"10.0.0.1"}

\* the X-Thread-ID header is absent: /chat runs on the thread of the client
\* and /chat/system on the default thread
ThreadHeaders == {None}

\* SpecApi follows the last two requests that the window admits from a
\* client and those it rejects; the requests before them carry no message
Early(client_ip) == Len(admitted[client_ip]) < RATE_LIMIT_REQUESTS - 2

Chat ==
    \E request \in ApiRequests, client_ip \in ApiClients, header \in ThreadHeaders :
        /\ Quiet
        /\ Early(client_ip) => (request = EmptyRequest /\ header = None)
        /\ chat(request, client_ip, header)

ChatStream ==
    \E request \in ApiRequests, client_ip \in ApiClients :
        /\ Quiet
        /\ ~Early(client_ip)
        /\ chat_stream(request, client_ip)

ChatSystem ==
    \E system_message \in {NoContent, Text(" "), Text("s")},
       user_message \in {NoContent, Text("q")},
       temperature \in Temperatures, client_ip \in ApiClients :
           /\ Quiet
           /\ ~Early(client_ip)
           /\ chat_with_system(system_message, user_message, temperature, client_ip)

\* the service of the API's process is configured for openai
InitApi ==
    /\ settings \in {DeclaredSettings, CompleteSettings(TRUE)}
    /\ search_service = WorkingSearch(settings)
    /\ svc = LLMService("openai", settings)
    /\ Fresh

NextApi ==
    \/ Chat
    \/ ChatStream
    \/ ChatSystem
    \/ _initialize_state
    \/ _llm_node
    \/ LlmReturns
    \/ _finalize_response
    \/ InvokeReturns
    \/ ControllerReturns
    \/ Responds
    \/ Fails
    \/ FailsSilently
    \/ RespondsOddly
    \/ SendsRole
    \/ Pulls
    \/ StreamOpens
    \/ Delivers
    \/ StreamExhausted
    \/ StreamEnds
    \/ Breaks

SpecApi == InitApi /\ [][NextApi]_vars

-----------------------------------------------------------------------------
(* Streaming endpoint: one /chat/stream request, whose provider stream     *)
(* delivers any sequence of deltas and may fail at any point.              *)

\* `if chunk:  # Only yield non-empty chunks` and the content event of each
RECURSIVE ContentEvents(_)
ContentEvents(yielded) ==
    IF yielded = <<>>
    THEN <<>>
    ELSE (IF yielded[1] # NoContent
          THEN <<[kind |-> "content", text |-> yielded[1]]>>
          ELSE <<>>) \o ContentEvents(Tail(yielded))

\* an event generator that sends the completion signal in a `finally`, so
\* that it follows the error event as well
event_generator_finally(yielded, ended) ==
    <<[kind |-> "role", text |-> Text("assistant")]>>
    \o ContentEvents(yielded)
    \o (CASE ended = "exhausted" -> <<[kind |-> "done", text |-> Text("[DONE]")]>>
          [] ended = "raised" -> <<[kind |-> "error", text |-> Text("Stream interrupted")],
                                  [kind |-> "done", text |-> Text("[DONE]")]>>
          [] OTHER -> <<>>)

\* ChatController.stream.event_generator: the events sent for what the
\* generator of chunks has yielded, once it is exhausted ("exhausted") or has
\* raised ("raised"), or while it is still pulled ("no")
event_generator(yielded, ended) ==
    <<[kind |-> "role", text |-> Text("assistant")]>>
    \o ContentEvents(yielded)
    \o (CASE ended = "exhausted" -> <<[kind |-> "done", text |-> Text("[DONE]")]>>
          [] ended = "raised" -> <<[kind |-> "error", text |-> Text("Stream interrupted")]>>
          [] OTHER -> <<>>)

\* what the consumer of /chat/stream has received: nothing before the event
\* generator is started; the role event before the generator of chunks is
\* entered; then the events of the chunks it yields.  [DONE] follows the
\* exhaustion of the generator of chunks and the error event its exception
\* without a suspension in between.
sse ==
    IF http.endpoint = "chat_stream" /\ http.status = 200
    THEN CASE egen = "role" -> event_generator(<<>>, "no")
           [] egen = "raised" -> event_generator(<<>>, "raised")
           [] egen = "pulling" ->
                  event_generator(chunks, IF pc = "done" THEN "exhausted" ELSE "no")
           [] OTHER -> <<>>
    ELSE <<>>

StreamRequests ==
    {ChatRequest(m, NoModel, 7, p) :
        m \in {<<>>, <<Message("user", Text("q"))>>}, p \in ProviderInputs}

ChatStreamOne ==
    \E request \in StreamRequests, client_ip \in ApiClients :
        /\ pc = "idle"
        /\ egen = "none"
        /\ chat_stream(request, client_ip)

DeliversAny == \E delta \in NativeDeltas : NativeChunk(delta)

NextStream ==
    \/ ChatStreamOne
    \/ SendsRole
    \/ Pulls
    \/ StreamOpens
    \/ DeliversAny
    \/ StreamExhausted
    \/ StreamEnds
    \/ Breaks

SpecStream == Init /\ [][NextStream]_vars

\* the generator of test_chat_stream_service_error, patched in place of
\* llm_service.stream_response: pulled, it raises Exception("Stream error");
\* the service is not entered
error_stream ==
    /\ egen = "role"
    /\ egen' = "raised"
    /\ UNCHANGED <<svc, settings, search_service, others, clients, constructed, svcVars, http, reached,
                   poolVars, outerVars>>

\* /chat/stream over the service's generator of chunks or over one that
\* raises to its consumer
NextStreamRaising ==
    \/ ChatStreamOne
    \/ SendsRole
    \/ Pulls
    \/ StreamOpens
    \/ DeliversAny
    \/ StreamExhausted
    \/ StreamEnds
    \/ Breaks
    \/ error_stream

SpecStreamRaising == Init /\ [][NextStreamRaising]_vars

-----------------------------------------------------------------------------
(* Failures of the provider call (SpecFailures): every provider is asked   *)
(* and its call may raise each of the native failures.                      *)

\* the awaited provider call raises one of the native failures
FailsAny == \E failure \in ProviderFailures : ProviderFails(failure)

NextFailures ==
    \/ Generate
    \/ Responds
    \/ FailsAny

SpecFailures == Init /\ [][NextFailures]_vars

-----------------------------------------------------------------------------
(* Native answers (SpecContent): one generate_response on a service of any *)
(* provider, answered with any list of choices or content blocks, with or  *)
(* without token counters, or failing.                                     *)

Carriers == {Text("A"), Text("B"), NoText}

NativeResponses ==
    {[body |-> body, usage |-> counted] :
        body \in SeqsUpTo(Carriers, MaxBlocks),
        counted \in {Counters(1, 1, 2), NoCounters}}

ContentRequests ==
    {SetEnableSearch(ChatRequest(<<Message("user", Text("q"))>>, model, 7, p), v) :
        model \in {NoModel, MISTRAL}, p \in ProviderInputs, v \in {"unset", "off"}}

GenerateContent ==
    \E request \in ContentRequests :
        pc = "idle" /\ generate_response(request) /\ UNCHANGED <<apiVars, outerVars>>

RespondsNative == \E response \in NativeResponses : ProviderResponds(response, <<>>)

NextContent ==
    \/ GenerateContent
    \/ RespondsNative
    \/ FailsAny

SpecContent == Init /\ [][NextContent]_vars

-----------------------------------------------------------------------------
(* Exchanges with every provider (SpecExchange): one generate_response on  *)
(* a service of any provider, with or without tools, whose provider calls  *)
(* are answered, with or without tool calls, or fail.                       *)

NextExchange ==
    \/ GenerateTools
    \/ RespondsTools
    \/ FailsAny
    \/ Searched

InitExchange ==
    /\ settings \in {DeclaredSettings, CompleteSettings(TRUE)}
    /\ search_service \in SearchServices(settings)
    /\ svc \in Services(KnownProviders, settings)
    /\ Fresh

SpecExchange == InitExchange /\ [][NextExchange]_vars

-----------------------------------------------------------------------------
(* Teardown of the pool (SpecTeardown): coroutines of one event loop call   *)
(* get_<provider>_client, which has no await and runs from its test to its  *)
(* return or raise, while close_all_clients runs from one `await            *)
(* client.close()` to the next; the methods take no lock.  lifespan is the  *)
(* application's shutdown sequence.                                         *)

\* the branches of close_all_clients that await client.close(); a gemini model
\* is passed over
NeedsClose(p) == p \in {"openai", "anthropic", "ollama"}

\* a pool that keeps the entry of a provider whose construction raised
get_provider_client_caching(p, constructs) ==
    /\ app = "running"
    /\ (constructs => MissingName(p, settings) = None)
    /\ IF clients[p] # 0
       THEN /\ acquired' = [provider |-> p, status |-> "returned", client |-> clients[p],
                            tried |-> FALSE, after_failure |-> failed[p],
                            was_closed |-> (<<p, clients[p], TRUE>> \in closed)]
            /\ failed' = [failed EXCEPT ![p] = FALSE]
            /\ UNCHANGED <<clients, constructed, held>>
       ELSE IF constructs
       THEN /\ constructed[p] < MaxOwnClients
            /\ get_client(p)
            /\ held' = Append(held, p)
            /\ acquired' = [provider |-> p, status |-> "returned", client |-> ClientOf(p),
                            tried |-> TRUE, after_failure |-> failed[p],
                            was_closed |-> FALSE]
            /\ failed' = [failed EXCEPT ![p] = FALSE]
       ELSE /\ constructed[p] < MaxOwnClients
            /\ get_client(p)
            /\ held' = Append(held, p)
            /\ acquired' = [provider |-> p, status |-> "raised", client |-> 0,
                            tried |-> TRUE, after_failure |-> failed[p],
                            was_closed |-> FALSE]
            /\ failed' = [failed EXCEPT ![p] = TRUE]
    /\ UNCHANGED <<svc, settings, search_service, others, svcVars, poolVars, apiVars, mockVars, agentVars, limitVars, usageVars,
                   closed, closer, app>>

\* ClientManager.get_<provider>_client(): the client of the map is returned;
\* when the map has none, one is constructed and stored, or the construction
\* raises (a missing package, a name the settings do not hold) before anything
\* is stored
get_provider_client(p, constructs) ==
    /\ app = "running"
    /\ (constructs => MissingName(p, settings) = None)
    /\ IF clients[p] # 0
       THEN /\ acquired' = [provider |-> p, status |-> "returned", client |-> clients[p],
                            tried |-> FALSE, after_failure |-> failed[p],
                            was_closed |-> (<<p, clients[p], TRUE>> \in closed)]
            /\ failed' = [failed EXCEPT ![p] = FALSE]
            /\ UNCHANGED <<clients, constructed, held>>
       ELSE IF constructs
       THEN /\ constructed[p] < MaxOwnClients
            /\ get_client(p)
            /\ held' = Append(held, p)
            /\ acquired' = [provider |-> p, status |-> "returned", client |-> ClientOf(p),
                            tried |-> TRUE, after_failure |-> failed[p],
                            was_closed |-> FALSE]
            /\ failed' = [failed EXCEPT ![p] = FALSE]
       ELSE /\ acquired' = [provider |-> p, status |-> "raised", client |-> 0,
                            tried |-> TRUE, after_failure |-> failed[p],
                            was_closed |-> FALSE]
            /\ failed' = [failed EXCEPT ![p] = TRUE]
            /\ UNCHANGED <<clients, constructed, held>>
    /\ UNCHANGED <<svc, settings, search_service, others, svcVars, poolVars, apiVars, mockVars, agentVars, limitVars, usageVars,
                   closed, closer, app>>

\* the first key from position i on whose branch awaits
RECURSIVE NextAwait(_, _)
NextAwait(keys, i) ==
    IF i > Len(keys) \/ NeedsClose(keys[i]) THEN i ELSE NextAwait(keys, i + 1)

\* `for provider, client in self._clients.items()` from its i-th step on, up to
\* the next await: the iterator raises RuntimeError when the size of the map
\* is no longer the size it had when the loop began; at the end of the keys
\* the loop is left and self._clients.clear() runs
Resume(i, size) ==
    IF Len(held) # size
    THEN /\ closer' = [pc |-> "raised", at |-> i - 1, size |-> size]
         /\ UNCHANGED <<clients, held>>
    ELSE IF NextAwait(held, i) <= Len(held)
    THEN /\ closer' = [pc |-> "awaiting", at |-> NextAwait(held, i), size |-> size]
         /\ UNCHANGED <<clients, held>>
    ELSE /\ closer' = [pc |-> "done", at |-> Len(held), size |-> size]
         /\ clients' = [p \in KnownProviders |-> 0]
         /\ held' = <<>>

\* ClientManager.close_all_clients(), up to its first await or to its end
close_all_clients ==
    /\ closer.pc \in {"idle", "done", "raised"}
    /\ Resume(1, Len(held))
    /\ UNCHANGED <<svc, settings, search_service, others, constructed, svcVars, poolVars, apiVars, mockVars, agentVars,
                   limitVars, usageVars, closed, app, acquired, failed>>

\* the awaited client.close() returns, or raises and the exception is logged;
\* the loop goes on
CloseReturns(ok) ==
    /\ closer.pc = "awaiting"
    /\ closed' = closed \cup {<<held[closer.at], clients[held[closer.at]], ok>>}
    /\ Resume(closer.at + 1, closer.size)
    /\ UNCHANGED <<svc, settings, search_service, others, constructed, svcVars, poolVars, apiVars, mockVars, agentVars,
                   limitVars, usageVars, app, acquired, failed>>

\* lifespan(app) after its yield: the shutdown is logged
lifespan ==
    /\ app = "running"
    /\ app' = "shutdown"
    /\ UNCHANGED <<svc, settings, search_service, others, clients, constructed, svcVars, poolVars, apiVars, mockVars,
                   agentVars, limitVars, usageVars, held, closed, closer, acquired, failed>>

NextTeardown ==
    \/ \E p \in {"openai", "gemini"}, constructs \in BOOLEAN :
           get_provider_client(p, constructs)
    \/ close_all_clients
    \/ \E ok \in BOOLEAN : CloseReturns(ok)
    \/ lifespan

SpecTeardown == InitPool /\ [][NextTeardown]_vars

-----------------------------------------------------------------------------
(* Usage (SpecUsage): the usage mapping each handler builds from the token  *)
(* counters of the provider's response.                                     *)

\* the counters a response may hold: an openai response has a usage object
\* with its three counters or none; an ollama response has eval_count and
\* prompt_eval_count, each or not, and no total
NativeCounters ==
    {[provider |-> "openai", prompt |-> a, completion |-> b, total |-> a + b] :
        a \in 0..MaxTokens, b \in 0..MaxTokens}
    \cup {[provider |-> p, prompt |-> Absent, completion |-> Absent, total |-> Absent] :
             p \in KnownProviders}
    \cup {[provider |-> p, prompt |-> a, completion |-> b, total |-> Absent] :
             p \in {"ollama", "gemini", "anthropic"},
             a \in Absent..MaxTokens, b \in Absent..MaxTokens}

\* the provider's response arrives
Reports ==
    /\ \E c \in NativeCounters : counters' = c
    /\ usage' = NotTranslated
    /\ UNCHANGED <<svc, settings, search_service, others, clients, constructed, svcVars, poolVars, apiVars, mockVars,
                   agentVars, limitVars, lifeVars>>

\* the handler builds the ChatResponse
Translates ==
    /\ counters.provider # "none"
    /\ usage = NotTranslated
    /\ usage' = UsageOf(counters)
    /\ UNCHANGED <<svc, settings, search_service, others, clients, constructed, svcVars, poolVars, apiVars, mockVars,
                   agentVars, limitVars, lifeVars, counters>>

NextUsage ==
    \/ Reports
    \/ Translates

SpecUsage == Init /\ [][NextUsage]_vars

-----------------------------------------------------------------------------
(* Properties of the gateway (Spec).                                       *)

\* C1: a generate_response on a valid request (non-empty messages, known
\* roles, temperature in 0.0..2.0) whose effective provider is a known one and
\* none of whose provider calls failed ends with a ChatResponse of role
\* assistant, never with an error.
C1_ValidRequestAnswered ==
    (/\ op = "generate"
     /\ pc = "done"
     /\ req.messages # <<>>
     /\ \A i \in 1..Len(req.messages) : req.messages[i].role \in Roles
     /\ 0 <= req.temperature /\ req.temperature <= 20
     /\ EffectiveProvider(req) \in KnownProviders
     /\ \A i \in 1..Len(calls) : calls[i].reply.status # "failed")
    => (result.kind = "response" /\ result.role = "assistant")

\* C2: a request whose provider override is not a known provider id fails at
\* once with a configuration error in generate_response and in
\* stream_response: no client is constructed, no provider call is issued, and
\* the outcome is the error (raised, or yielded as the only chunk).
C2_UnknownOverrideRejected ==
    (op \in {"generate", "stream"} /\ req.provider \notin KnownProviders \cup {None, ""})
    => /\ pc = "done"
       /\ calls = <<>>
       /\ \A p \in KnownProviders : constructed[p] = 0
       /\ (op = "generate" => result = ExceptionOf("ValueError", "Unsupported provider"))
       /\ (op = "stream" => chunks = <<ErrorChunk("Unsupported provider")>>)

\* C3: the provider that serves a request is request.provider when that is
\* present and non-empty and the service's default otherwise; when it is a
\* known provider, generate_response and stream_response both issue their
\* provider call on that provider's adapter, whichever provider is the default.
C3_OverrideServed ==
    LET chosen == IF req.provider \notin {None, ""} THEN req.provider ELSE svc.provider
    IN  (op \in {"generate", "stream"} /\ chosen \in KnownProviders)
        => (calls # <<>> /\ calls[1].provider = chosen)

\* C6: a request holding a message whose role is none of system, user,
\* assistant is a validation error: no provider call is ever issued for it,
\* and no message sent to a provider carries a role the request did not give.
C6_UnknownRoleRejected ==
    (op \in {"generate", "stream"}
     /\ \E i \in 1..Len(req.messages) : req.messages[i].role \notin Roles)
    => calls = <<>>

-----------------------------------------------------------------------------
(* Properties of the tool exchange (SpecTools).                            *)

\* C7: when the first call carried the tools and its response holds one or
\* more tool calls, the finished invocation has issued exactly one further
\* call, without tools, on the formatted messages followed by the assistant's
\* partial message and one user message with the joined tool results, and
\* what it returns is the response of that second call.
C7_ToolCallsAnswered ==
    (/\ op = "generate"
     /\ pc = "done"
     /\ calls # <<>>
     /\ calls[1].tools
     /\ calls[1].reply.status = "ok"
     /\ calls[1].reply.tool_calls # <<>>)
    => /\ Len(calls) = 2
       /\ ~calls[2].tools
       /\ calls[2].messages =
              WithToolResults(format_messages(req.messages), calls[1].reply.body[1],
                              tool_results)
       /\ (calls[2].reply.status = "ok" =>
              result = ChatResponse(calls[2].reply.body[1], calls[2].model))

\* C8: one generate_response issues at most two provider calls; once the
\* second call has answered the invocation is over with that answer, whatever
\* tool calls the answer holds, and every search executed was requested by
\* the first response.
C8_AtMostTwoCalls ==
    /\ Len(calls) <= 2
    /\ IF calls = <<>>
       THEN executed = <<>>
       ELSE Len(executed) <= Len(SelectSeq(calls[1].reply.tool_calls,
                                           LAMBDA tc : tc.name = "web_search"))
    /\ (Len(calls) = 2 /\ calls[2].reply.status = "ok") =>
           /\ pc = "done"
           /\ result = ChatResponse(calls[2].reply.body[1], calls[2].model)

\* the second response asked for a tool call and the invocation is over
C8_SecondAsksForTool ==
    /\ Len(calls) = 2
    /\ calls[2].reply.status = "ok"
    /\ calls[2].reply.tool_calls # <<>>
    /\ calls[2].reply.tool_calls[1].name = "web_search"
    /\ executed # <<>>
    /\ pc = "done"

-----------------------------------------------------------------------------
(* Properties of the pool under threads (SpecPool).                        *)

\* C9: when threads acquire the client of one provider concurrently, the
\* client is constructed once, and all the threads that have returned hold
\* that same instance.
C9_ConstructedOnce ==
    /\ \A p \in KnownProviders : constructed[p] <= 1
    /\ \A t1, t2 \in 1..NThreads :
           (tpc[t1] = "returned" /\ tpc[t2] = "returned" /\ tprov[t1] = tprov[t2])
           => tgot[t1] = tgot[t2]

-----------------------------------------------------------------------------
(* Properties of sequences of invocations (SpecSequence).                  *)

\* C10: over any sequence of generate_response and stream_response at most
\* one client per provider is constructed, and every provider call is made
\* through the instance the ClientManager holds.
C10_OneClientPerProvider ==
    /\ \A p \in KnownProviders : constructed[p] <= 1
    /\ \A i \in 1..Len(calls) : calls[i].client = clients[calls[i].provider]

-----------------------------------------------------------------------------
(* Properties of the API handlers (SpecApi).                               *)

\* the detail of the HTTPException of rate_limit_check
RateLimitDetail == "Rate limit exceeded. Please try again later."

\* C4 (as stated): a request with no messages, on /chat and on /chat/stream,
\* is always answered with HTTP 400 "Messages cannot be empty", and neither
\* the agent nor the service has been reached.
C4_EmptyAlways400 ==
    (http.endpoint \in {"chat", "chat_stream"} /\ req.messages = <<>>)
    => /\ http.status = 400
       /\ http.detail = "Messages cannot be empty"
       /\ ~reached.agent
       /\ ~reached.service

\* C4 (amended): a request with no messages, on /chat and on /chat/stream,
\* never reaches the agent, the service or a provider client: no event
\* generator is created, no call is issued and no client is constructed while
\* it is the request at hand.  It is answered with HTTP 400 "Messages cannot
\* be empty" when the rate limiter admits it, and with HTTP 429 when the
\* client is over its limit, the limiter being consulted before validation.
C4_EmptyMessagesRejected ==
    /\ []((http.endpoint \in {"chat", "chat_stream"} /\ req.messages = <<>>)
          => /\ verdict.status = 200
                => (http.status = 400 /\ http.detail = "Messages cannot be empty")
             /\ verdict.status = 429
                => (http.status = 429 /\ http.detail = RateLimitDetail)
             /\ ~reached.agent
             /\ ~reached.service
             /\ egen = "none"
             /\ anode \in {"idle", "returned"}
             /\ pc \in {"idle", "done"})
    /\ [][(http'.endpoint \in {"chat", "chat_stream"} /\ req'.messages = <<>>)
          => /\ calls' = calls
             /\ clients' = clients
             /\ constructed' = constructed]_vars

\* /chat/stream has rejected a request with no messages, after a request
\* that reached a provider
C4_EmptyRejected ==
    /\ http = [endpoint |-> "chat_stream", status |-> 400,
               detail |-> "Messages cannot be empty"]
    /\ req.messages = <<>>
    /\ verdict.status = 200
    /\ calls # <<>>

\* C5: whenever the agent or the service has been reached, the temperature of
\* the request lies in 0.0..2.0 (both ends included): a request outside the
\* range is rejected before it is dispatched.
C5_TemperatureValidated ==
    (reached.agent \/ reached.service)
    => (0 <= req.temperature /\ req.temperature <= 20)

\* the details with which ChatController.generate rejects a request
ValidationDetail(request) ==
    IF request.messages = <<>> THEN "Messages cannot be empty"
    ELSE IF Len(request.messages) > MaxConversation THEN "Too many messages in conversation"
    ELSE IF \E i \in 1..Len(request.messages) :
                CharLen(request.messages[i].content) > MaxContent
    THEN "Message content too long"
    ELSE "none"

\* C19: on /chat, when the agent has raised, the answer is HTTP 500 with the
\* detail "Failed to generate response. Please try again." and not the text
\* of the exception; an answer of 500 has no other origin, and one of 200 is
\* given only when the agent returned; a request that the limiter or
\* validation rejects is answered with the status (429, 400) and the detail of
\* the HTTPException raised, the agent not reached.
C19_AgentErrorIsGeneric500 ==
    http.endpoint = "chat"
    => /\ http.status \in {0, 200, 400, 429, 500}
       /\ (reached.agent /\ anode = "returned" /\ http.status # 0
           /\ delivered.kind = "raised")
          => /\ http.status = 500
             /\ http.detail = "Failed to generate response. Please try again."
             /\ http.detail # delivered.message
       /\ http.status = 500
          => (reached.agent /\ anode = "returned" /\ delivered.kind = "raised")
       /\ http.status = 200
          => (reached.agent /\ anode = "returned" /\ delivered.kind = "returned")
       /\ verdict.status = 429
          => (http.status = 429 /\ http.detail = RateLimitDetail /\ ~reached.agent)
       /\ (verdict.status = 200 /\ ValidationDetail(req) # "none")
          => /\ http.status = 400
             /\ http.detail = ValidationDetail(req)
             /\ ~reached.agent
       /\ http.status = 400 => (verdict.status = 200 /\ http.detail = ValidationDetail(req))
       /\ http.status = 429 => verdict.status = 429

\* /chat has answered an exception of the agent with the generic 500
C19_AgentFailedOnChat ==
    /\ http = [endpoint |-> "chat", status |-> 500,
               detail |-> "Failed to generate response. Please try again."]
    /\ delivered.kind = "raised"
    /\ result.kind = "error"
    /\ reached.agent

\* C20: on /chat and on /chat/stream a conversation of more than 50 messages
\* that the limiter admits is answered with HTTP 400 and neither the agent nor
\* the LLM service is called; a conversation of exactly 50 messages is not
\* rejected with 400.
C20_LongConversationRejected ==
    http.endpoint \in {"chat", "chat_stream"}
    => /\ (Len(req.messages) > MaxConversation /\ verdict.status = 200)
          => /\ http.status = 400
             /\ ~reached.agent
             /\ ~reached.service
             /\ egen = "none"
       /\ Len(req.messages) = MaxConversation => http.status # 400

-----------------------------------------------------------------------------
(* Properties against a mocked provider (SpecMocked).                      *)

\* C11: for every known provider, when stream_response has finished on a
\* request that generate_response was given before, against a provider that
\* answers identically, generate_response returned a response and the
\* concatenation of the streamed chunks is the content of that response.
C11_StreamEqualsGenerate ==
    (op = "stream" /\ pc = "done" /\ EffectiveProvider(req) \in KnownProviders)
    => (generated.kind = "response" /\ Concat(chunks) = generated.content)

-----------------------------------------------------------------------------
(* Properties of the streaming endpoint (SpecStream).                      *)

\* C12: the content events the consumer of a stream has received are the
\* provider's text deltas in the order the provider emitted them, each once;
\* the end-of-stream marker comes after them, once, when the stream is over.
C12_DeltasInOrder ==
    (http.endpoint = "chat_stream" /\ http.status = 200 /\ calls # <<>>)
    => LET emitted == SelectSeq(native, LAMBDA d : d # NoContent)
           received == SelectSeq(sse, LAMBDA e : e.kind = "content")
           marks == SelectSeq(sse, LAMBDA e : e.kind = "done")
       IN  /\ Len(received) >= Len(emitted)
           /\ \A i \in 1..Len(emitted) : received[i].text = emitted[i]
           /\ (calls[1].reply.status # "failed" => Len(received) = Len(emitted))
           /\ (pc = "done" => Len(marks) = 1 /\ sse[Len(sse)].kind = "done")
           /\ (pc # "done" => marks = <<>>)

\* a stream of two different deltas has been delivered and is over
C12_TwoDeltasDelivered ==
    /\ http.endpoint = "chat_stream"
    /\ pc = "done"
    /\ calls # <<>>
    /\ calls[1].reply.status = "ok"
    /\ native = <<Text("He"), Text(" ")>>
    /\ Len(sse) = 4

\* C13: a stream that failed after it was opened ends with an error event
\* that is not a content event, and is not closed by the completion signal of
\* a successful stream.
C13_FailureDistinguishable ==
    (/\ http.endpoint = "chat_stream"
     /\ http.status = 200
     /\ pc = "done"
     /\ calls # <<>>
     /\ calls[1].reply.status = "failed")
    => /\ sse[Len(sse)].kind = "error"
       /\ \A i \in 1..Len(sse) : sse[i].kind # "done"

\* C14 (as stated): every chunk stream_response yields is a non-empty text
\* that is not white space alone.
C14_OnlyTextForwarded ==
    op = "stream" => \A i \in 1..Len(chunks) : chunks[i] \notin {NoContent, Text(" ")}

\* C14 (amended): stream_response forwards every non-empty delta unchanged,
\* deltas of white space alone included; empty deltas are dropped by the
\* openai, anthropic and gemini branches, and for ollama, which yields them,
\* by the event generator of /chat/stream, so none reaches the consumer.
C14_NonEmptyForwarded ==
    (op = "stream" /\ calls # <<>> /\ calls[1].reply.status # "failed")
    => LET nonempty == SelectSeq(native, LAMBDA d : d # NoContent)
           received == SelectSeq(sse, LAMBDA e : e.kind = "content")
       IN  /\ chunks = IF calls[1].provider = "ollama" THEN native ELSE nonempty
           /\ (http.status = 200 =>
                  /\ Len(received) = Len(nonempty)
                  /\ \A i \in 1..Len(nonempty) : received[i].text = nonempty[i])

\* an openai stream delivered an empty delta and one of white space alone,
\* and only the latter was yielded
C14_WhitespaceKept ==
    /\ op = "stream"
    /\ pc = "done"
    /\ calls # <<>>
    /\ calls[1].provider = "openai"
    /\ native = <<NoContent, Text(" ")>>
    /\ chunks = <<Text(" ")>>

-----------------------------------------------------------------------------
(* Properties of the gateway's responses (SpecContent).                    *)

\* the text of every block that has text, in order
RECURSIVE TextOfBlocks(_)
TextOfBlocks(blocks) ==
    IF blocks = <<>> THEN NoContent
    ELSE (IF blocks[1] = NoText THEN NoContent ELSE blocks[1]) \o TextOfBlocks(Tail(blocks))

\* the model of a response is the request's model when the request gives
\* one and the service's default model otherwise
ModelReported ==
    result.model = IF req.model # NoModel THEN req.model ELSE svc.model

\* C15 as stated: the model a ChatResponse reports is the request's model
\* when the request gives one and the service's default model otherwise, and
\* its content is the content of the first choice or block the provider
\* returned.
C15_FirstChoiceContent ==
    (op = "generate" /\ pc = "done" /\ result.kind = "response")
    => /\ ModelReported
       /\ calls # <<>>
       /\ LET body == calls[Len(calls)].reply.body
          IN  (body # <<>> /\ body[1] # NoText) => result.content = body[1]

\* C15: the model a ChatResponse reports is the request's model when the
\* request gives one and the service's default model otherwise, and its
\* content is taken from the provider's answer: on openai the content of the
\* first choice, on anthropic the text of every block that has text, joined
\* in order, on gemini the text of the result (its string form when it has no
\* text), on ollama the content of the message (empty when it has none).
C15_ModelResolved ==
    (op = "generate" /\ pc = "done" /\ result.kind = "response")
    => /\ ModelReported
       /\ calls # <<>>
       /\ LET c == calls[Len(calls)]
              body == c.reply.body
          IN  CASE c.provider = "openai" -> body # <<>> /\ result.content = body[1]
                [] c.provider = "anthropic" -> result.content = TextOfBlocks(body)
                [] c.provider = "gemini" ->
                       result.content = IF body = <<>> THEN StrOfResult ELSE body[1]
                [] c.provider = "ollama" ->
                       result.content = IF body = <<>> THEN NoContent ELSE body[1]
                [] OTHER -> FALSE

\* anthropic answered a request that names a model other than the default
\* with two text blocks, and the response holds both texts
C15_RequestModelReported ==
    /\ op = "generate"
    /\ pc = "done"
    /\ result.kind = "response"
    /\ req.model = MISTRAL
    /\ svc.model = GPT4
    /\ result.model = MISTRAL
    /\ calls[1].provider = "anthropic"
    /\ calls[1].reply.body = <<Text("A"), Text("B")>>
    /\ result.content = <<"A", "B">>

-----------------------------------------------------------------------------
(* Properties of the agent (SpecAgent).                                    *)

\* C16: a run performs initialize, llm_call, finalize in that order; when the
\* LLM call of the run raised, the run ends with an error recorded (the
\* exception's message, when it has one), the response scan is not performed
\* and invoke delivers no response.
C16_FailedRunSkipsProcessing ==
    /\ \E n \in 0..3 :
           SelectSeq(atrace, LAMBDA step : step # "scan")
               = SubSeq(<<"initialize", "llm_call", "finalize">>, 1, n)
    /\ (anode \in {"end", "returned"} /\ result.kind = "error")
       => /\ HasError(agent)
          /\ (result.error # "" => agent.error = result.error)
          /\ \A i \in 1..Len(atrace) : atrace[i] # "scan"
          /\ (anode = "returned" => delivered.kind = "raised")

\* C17: invoke returns a ChatResponse exactly when the LLM call of the
\* invocation succeeded, and then it is that call's response; when the call
\* raised, invoke raises a failure that carries the recorded message.
C17_ReturnsIffCallSucceeded ==
    anode = "returned"
    => /\ (delivered.kind = "returned" <=> result.kind = "response")
       /\ (delivered.kind = "returned" => delivered.response = result)
       /\ (result.kind = "error" =>
              /\ delivered.kind = "raised"
              /\ (result.error # "" => delivered.message = result.error))


(* Properties of the rate limiter (SpecLimiter).                           *)

\* the admissions of an address that fall into its current window
InWindow(ip) ==
    {i \in 1..Len(admitted[ip]) : admitted[ip][i] >= store[ip].window_start}

\* C18: for each client address at most RATE_LIMIT_REQUESTS requests are admitted
\* within one window of RATE_LIMIT_WINDOW seconds (the stored count is the number
\* of admissions of the current window and never exceeds the limit); a further
\* request of the window is answered 429 and leaves the stored count as it was;
\* the count restarts only in a call made after the window has expired.
C18_WindowAdmitsAtMostLimit ==
    /\ \A ip \in ClientIps :
           /\ Cardinality(InWindow(ip)) = store[ip].count
           /\ store[ip].count <= RATE_LIMIT_REQUESTS
           /\ \A i \in InWindow(ip) :
                  admitted[ip][i] <= store[ip].window_start + RATE_LIMIT_WINDOW
    /\ verdict.status = 429
       => /\ verdict.before >= RATE_LIMIT_REQUESTS
          /\ store[verdict.ip].count = verdict.before
          /\ store[verdict.ip].window_start = verdict.started
          /\ verdict.time - verdict.started <= RATE_LIMIT_WINDOW
    /\ verdict.status = 200
       => IF verdict.time - verdict.started > RATE_LIMIT_WINDOW
          THEN /\ store[verdict.ip].count = 1
               /\ store[verdict.ip].window_start = verdict.time
          ELSE /\ store[verdict.ip].count = verdict.before + 1
               /\ store[verdict.ip].window_start = verdict.started

\* a request is rejected in a window that began after an earlier one expired
C18_RejectedInLaterWindow ==
    /\ verdict.status = 429
    /\ Len(admitted[verdict.ip]) > RATE_LIMIT_REQUESTS

-----------------------------------------------------------------------------
(* Properties of the failure mapping (SpecFailures).                       *)

\* the canonical error kind the specification assigns to a native failure
CanonicalKind(failure) ==
    CASE failure = "auth" -> "AuthError"
      [] failure = "rate_limit" -> "ThrottleError"
      [] failure = "bad_request" -> "InvalidRequestError"
      [] OTHER -> "ProviderError"

\* C21: when a provider call of generate_response has failed, whatever the
\* provider, the error the caller gets has the type of the canonical kind of
\* the native failure: AuthError for an authentication failure, ThrottleError
\* for an exceeded rate or quota, InvalidRequestError for a malformed request
\* and ProviderError for every other failure.
C21_FailureKindByType ==
    (op = "generate" /\ pc = "done" /\ calls # <<>>
     /\ calls[Len(calls)].reply.status = "failed")
    => /\ result.kind = "error"
       /\ result.type = CanonicalKind(calls[Len(calls)].reply.failure)

-----------------------------------------------------------------------------
(* Properties of the exchanges with the providers (SpecExchange).          *)

\* C22: when the first call carried the tool definition and its response holds
\* no tool call, the handler has returned that response (its content, under the
\* model of the call) after that one call; and on every provider a call that
\* failed is the last call of the exchange, which ends with an error: no call
\* follows a failed one.
C22_OneCallWithoutToolCalls ==
    /\ (op = "generate" /\ pc = "done" /\ calls # <<>> /\ calls[1].tools
        /\ calls[1].reply.status = "ok" /\ calls[1].reply.tool_calls = <<>>)
       => /\ Len(calls) = 1
          /\ result = ChatResponse(calls[1].reply.body[1], calls[1].model)
    /\ \A i \in 1..Len(calls) :
           calls[i].reply.status = "failed"
           => /\ i = Len(calls)
              /\ pc = "done"
              /\ result.kind = "error"

\* a call that carried the tool definition was answered without tool calls
C22_PlainAnswerToToolCall ==
    /\ op = "generate"
    /\ pc = "done"
    /\ Len(calls) = 1
    /\ calls[1].tools
    /\ calls[1].reply.status = "ok"
    /\ calls[1].reply.tool_calls = <<>>
    /\ result.kind = "response"


\* the calls of the declared tool among the tool calls of a response
WebSearches(tcalls) == SelectSeq(tcalls, LAMBDA tc : tc.name = "web_search")

\* C23: when the first response to a call with tools holds calls of the search
\* tool and the handler is done, every one of them has been executed, in the
\* order received, whatever its arguments and whatever the search returned, one
\* result stands for each, and the final provider call has been issued: no
\* failure of one tool call has ended the exchange.
C23_ToolFailureNeverAborts ==
    (op = "generate" /\ pc = "done" /\ calls # <<>> /\ calls[1].tools
     /\ calls[1].reply.status = "ok" /\ WebSearches(calls[1].reply.tool_calls) # <<>>)
    => /\ executed = WebSearches(calls[1].reply.tool_calls)
       /\ Len(tool_results) = Len(executed)
       /\ Len(calls) = 2
       /\ (calls[2].reply.status = "ok" => result.kind = "response")


\* the conditions under which the specification allows tools on a request
ToolUseAllowed ==
    /\ EffectiveProvider(req) = "ollama"
    /\ req.enable_search = "on"
    /\ settings.EXA_SEARCH_ENABLED
    /\ search_service.enabled
    /\ ModelSupportsTools(OrModel(req.model, svc.model))

\* C24: when generate_response is done on a request for a known provider, a
\* call carried the tool definition, and tool calls were executed, only if the
\* provider is ollama, the request enables search, the search capability is
\* enabled and the resolved model matches the allow-list; in every other case
\* exactly one provider call was made, and it carried no tools.
C24_ToolsOnlyWhenAllowed ==
    (op = "generate" /\ pc = "done" /\ EffectiveProvider(req) \in KnownProviders)
    => /\ \A i \in 1..Len(calls) : calls[i].tools => (ToolUseAllowed /\ i = 1)
       /\ executed # <<>> => ToolUseAllowed
       /\ ~ToolUseAllowed => (Len(calls) = 1 /\ ~calls[1].tools)

-----------------------------------------------------------------------------
(* Further properties of the agent (SpecAgent).                            *)

\* C25: when the LLM call of an invocation has returned a response, whatever
\* its content, the state holds that response unchanged after finalize, and
\* invoke has returned it to the caller once it is over.
C25_FinalizeOnlyObserves ==
    (anode \in {"end", "returned"} /\ result.kind = "response")
    => /\ agent.response = result
       /\ (anode = "returned"
           => /\ delivered.kind = "returned"
              /\ delivered.response = result)

-----------------------------------------------------------------------------
(* Properties of the pool's teardown (SpecTeardown).                       *)

\* C26: a run of close_all_clients that comes to its end has called close() on
\* every client of the map that needs closing, whether or not another close()
\* raised, and has left the map empty; and once the application has shut down
\* no client that needs closing is left in the map without having been closed.
C26_ShutdownClosesPool ==
    /\ [][(closer' # closer /\ closer'.pc = "done")
          => /\ held' = <<>>
             /\ \A p \in KnownProviders :
                    /\ clients'[p] = 0
                    /\ (clients[p] # 0 /\ NeedsClose(p))
                       => \E ok \in BOOLEAN : <<p, clients[p], ok>> \in closed']_vars
    /\ [](app = "shutdown"
          => \A p \in KnownProviders :
                 (clients[p] # 0 /\ NeedsClose(p)) => <<p, clients[p], TRUE>> \in closed)

\* C27: the map never changes while close_all_clients iterates it (the
\* iteration never finds it changed), no acquisition returns a client that has
\* been closed, outside a run of close_all_clients no client of the map is a
\* closed one, and every client that has left the map had its close() called.
C27_TeardownUnderGuard ==
    /\ closer.pc # "raised"
    /\ ~acquired.was_closed
    /\ closer.pc \in {"idle", "done"}
       => \A p \in KnownProviders :
              clients[p] # 0 => <<p, clients[p], TRUE>> \notin closed
    /\ \A p \in KnownProviders : \A id \in 1..constructed[p] :
           (NeedsClose(p) /\ clients[p] # id)
           => \E ok \in BOOLEAN : <<p, id, ok>> \in closed

\* C28: an acquisition that raises leaves the map as it was, without an entry
\* for its provider, and the acquisition of a provider whose last acquisition
\* raised attempts the construction again.
C28_FailedConstructionNotCached ==
    /\ [][(acquired' # acquired /\ acquired'.status = "raised")
          => /\ clients' = clients
             /\ held' = held
             /\ clients'[acquired'.provider] = 0]_vars
    /\ [](acquired.status = "raised" => clients[acquired.provider] = 0)
    /\ [](acquired.after_failure => acquired.tried)

\* a client was constructed by the acquisition that followed a failed one,
\* while another provider's client was in the map
C28_ConstructedAfterFailure ==
    /\ acquired.status = "returned"
    /\ acquired.after_failure
    /\ acquired.tried
    /\ clients[acquired.provider] # 0
    /\ Len(held) > 1

-----------------------------------------------------------------------------
(* Properties of the usage translation (SpecUsage).                        *)

\* C29: in the usage of a response, a counter the provider did not supply is
\* absent, the total being absent too unless the provider supplied it or both
\* counters it is the sum of; and when the provider supplied no counter at all
\* the response has no usage (None) instead of a mapping.
C29_MissingCountersAbsent ==
    usage.kind # "none"
    => /\ (counters.prompt = Absent /\ counters.completion = Absent
           /\ counters.total = Absent)
          => usage.kind = "omitted"
       /\ usage.kind = "mapping"
          => /\ (counters.prompt = Absent => usage.prompt_tokens = Absent)
             /\ (counters.completion = Absent => usage.completion_tokens = Absent)
             /\ (counters.total = Absent
                 /\ (counters.prompt = Absent \/ counters.completion = Absent))
                => usage.total_tokens = Absent


-----------------------------------------------------------------------------
(* Properties of the event stream of /chat/stream (SpecStreamRaising).     *)

\* the events of a stream that close it
Terminal(events) == SelectSeq(events, LAMBDA e : e.kind \in {"done", "error"})

\* C30: the event stream of /chat/stream is well-formed in every run: its
\* first event is the assistant role delta, the content events follow it in
\* the order of the chunks, and it ends with exactly one terminal event, which
\* is [DONE] exactly when the chunk generator was exhausted without raising
\* and the error event otherwise; events are only ever appended, and nothing
\* is appended after the terminal event.
C30_StreamWellFormed ==
    /\ []((http.endpoint = "chat_stream" /\ http.status = 200 /\ egen # "created")
          => LET received == SelectSeq(sse, LAMBDA e : e.kind = "content")
                 yielded == IF egen = "pulling"
                            THEN SelectSeq(chunks, LAMBDA c : c # NoContent)
                            ELSE <<>>
                 exhausted == egen = "pulling" /\ pc = "done"
                 raised == egen = "raised"
             IN  /\ sse[1] = [kind |-> "role", text |-> Text("assistant")]
                 /\ \A i \in 2..Len(sse) : sse[i].kind # "role"
                 /\ Len(received) = Len(yielded)
                 /\ \A i \in 1..Len(yielded) : received[i].text = yielded[i]
                 /\ \A i \in 2..(1 + Len(received)) : sse[i].kind = "content"
                 /\ (~(exhausted \/ raised) => Terminal(sse) = <<>>)
                 /\ ((exhausted \/ raised) =>
                        /\ Len(Terminal(sse)) = 1
                        /\ sse[Len(sse)] = Terminal(sse)[1]
                        /\ (sse[Len(sse)].kind = "done" <=> exhausted)
                        /\ (sse[Len(sse)].kind = "error" <=> raised)))
    /\ [][(http.endpoint = "chat_stream" /\ http.status = 200 /\ http' = http)
          => /\ Len(sse') >= Len(sse)
             /\ SubSeq(sse', 1, Len(sse)) = sse
             /\ (Terminal(sse) # <<>> => sse' = sse)]_vars

\* a stream whose generator of chunks raised when it was pulled: the role
\* event and the error event, no [DONE], and the service not entered
C30_InterruptedStream ==
    /\ http.endpoint = "chat_stream"
    /\ http.status = 200
    /\ egen = "raised"
    /\ ~reached.service
    /\ calls = <<>>
    /\ sse = <<[kind |-> "role", text |-> Text("assistant")],
               [kind |-> "error", text |-> Text("Stream interrupted")]>>

====
